---- MODULE Spec2Model ----
(***************************************************************************)
(* Run orchestration and cron scheduling of the agent builder backend.     *)
(*                                                                         *)
(* Part 1 models the run/thread rows, the registry of in-flight tasks and  *)
(* the background task execute_run_async, one action per suspension point  *)
(* (await) of the coroutine, together with the endpoints that create,      *)
(* cancel, interrupt and patch runs and the shutdown hook, and the         *)
(* consumers of a run's event stream.                                      *)
(* Part 2 models the cron trigger loop check_and_schedule_cron_jobs and    *)
(* the cron dispatch loop run_scheduled_jobs.                              *)
(***************************************************************************)
EXTENDS Integers, Sequences, FiniteSets, TLC

\* ------------------------------------------------------------------------
\* Bounds of the model
\* ------------------------------------------------------------------------
MaxThreads == 2
MaxRuns == 1
MaxEvents == 1
MaxSubscribers == 2
MaxRequests == 2
\* graph objects _load_graph_from_file may produce
MaxLoads == 3
\* largest max_attempts and delay_seconds retry is called with
MaxAttempts == 3
MaxDelay == 1
MaxCrons == 2
MaxCronRuns == 3
\* the clock runs from 12:00 for MaxMinute minutes; an instant is a minute and
\* a position in it: 0 is the exact start of the minute (second 0,
\* microsecond 0), 1..SubsPerMinute-1 are later instants of the same minute
\* (with two of them: 1 is before hh:mm:30, 2 is hh:mm:30 or later)
MaxMinute == 5
SubsPerMinute == 3

ThreadIds == 1..MaxThreads
\* the ids the runs of a behaviour are given
RunRows == 1..MaxRuns
SubscriberIds == 1..MaxSubscribers

None == "None"
EmptyJson == "{}"

\* final_output = None
NoPayload == None

\* the state snapshot the n-th raw event of a run carries
Payload(n) == "values_" \o ToString(n)

\* messages of the exceptions the graph collaborator may raise
GraphErrors == {"boom", "timeout"}

\* the stream modes the modelled graphs emit events in: value snapshots
GraphEventKinds == {"values"}

TerminalStatuses == {"completed", "failed", "cancelled", "interrupted"}

VARIABLES
    threadStatus,   \* thread.status per thread id; "absent" when there is no row
    runs,           \* runs table: run id -> row; status "absent" when no row
    active_runs,    \* misc.active_runs: the run ids that map to a task
    taskPc,         \* per run: the await its background task is suspended at
    mustCancel,     \* per run: a Task.cancel() request not yet delivered
    taskOutcome,    \* per run: how the task ended
    eventCounter,   \* per run: local event_counter of execute_run_async
    finalOutput,    \* per run: local final_output of execute_run_async
    brokerEvents,   \* per run: events offered to live consumers
    storedEvents,   \* per run: events appended to the durable log
    brokerSignal,   \* per run: terminal signal given to the broker
    cleanupCount,   \* per run: number of cleanup_run calls
    rawEvent,       \* per run: the raw_event the loop body is handling
    exc,            \* per run: message of the exception the graph raised
    shutdown,       \* shutdown_event has run
    cancelAtRunning,\* per run: a hard cancel was requested while the row
                    \* said `running` (history, read by no operation)
    statusWrites,   \* per run: the statuses execute_run_async has committed,
                    \* in order (history, read by no operation)
    subscribers     \* per stream consumer: the run it is attached to (0: none)
                    \* and the event ids it has been sent, in order

runVars == <<threadStatus, runs, active_runs, taskPc, mustCancel, taskOutcome,
             eventCounter, finalOutput, brokerEvents, storedEvents,
             brokerSignal, cleanupCount, rawEvent, exc, shutdown, cancelAtRunning,
             statusWrites, subscribers>>

\* state of the cron subsystem (part 2)
VARIABLES
    clock,          \* wall clock
    crons,          \* cron table
    cronRuns,       \* cron_runs table, in insertion order
    trigPc,         \* position of the trigger loop's current tick
    trigNow,        \* the tick's local `now`
    scenario        \* history: how far the evaluations made so far follow
                    \* the sequence 12:00:00, 12:00:30, 12:05:00

\* state of the dispatch loop run_scheduled_jobs
VARIABLES
    dispPc,         \* position of the dispatch loop's current tick
    dispQueue,      \* scheduled_runs from the current element on (row indices)
    dispOutput,     \* the dict run_cron_job returned for the current element
    invocations     \* per cron_runs row: number of run_cron_job calls (history)

dispVars == <<dispPc, dispQueue, dispOutput, invocations>>

cronVars == <<clock, crons, cronRuns, trigPc, trigNow, scenario, dispVars>>

\* state of the checks of single operations (part 3)
VARIABLES
    finish,         \* the arguments of the finishing call under check, the
                    \* number of times it was applied and the row after the
                    \* first application
    merged          \* the operands _merge_jsonb is called with, its result
                    \* once it has returned, and the operands after the call

pureVars == <<finish, merged>>

\* state of the request handlers' validation (part 4)
VARIABLES
    assistants,     \* assistant table: assistant id -> row, NoAssistant when
                    \* there is no row
    asstReq,        \* per create_assistant request in flight: the await it
                    \* is suspended at, its locals and its answer
    response        \* the last response a validating handler gave: endpoint,
                    \* detail of the exception raised and HTTP status code

assistantVars == <<assistants, asstReq>>

apiVars == <<assistantVars, response>>

\* what startup_event brings up and shutdown_event takes down
VARIABLES
    cleanup_task,   \* the event store's retention task is running
    db_open         \* db_manager holds its engine and connections

lifeVars == <<cleanup_task, db_open>>

VARIABLES
    astreamCalls    \* per run: number of calls of graph.astream (history,
                    \* read by no operation)

VARIABLES
    waiter          \* the cancel request with wait=1 in flight: its run, its
                    \* action, where the handler is and the status of the
                    \* Run it returned

\* state of LangGraphService and of the helpers of misc.utils (part 5)
VARIABLES
    graph_cache,    \* _graph_cache: graph id -> the compiled graph object
                    \* cached for it, NoGraph when there is no entry
    graphCalls,     \* per caller: the call of get_graph or get_graph_raw it
                    \* made last, where the call is and what it returned
    graphLoads,     \* number of graph objects _load_graph_from_file has
                    \* produced; the n-th one is object n
    saver_ready,    \* db_manager holds its checkpointer and its store
    first_served    \* per graph id: the object the first successful
                    \* get_graph returned since the id was last removed
                    \* from the cache (history, read by no operation)

serviceVars == <<graph_cache, graphCalls, graphLoads, saver_ready,
                 first_served>>

VARIABLES
    runConfig       \* the call of create_run_config under check: its
                    \* arguments, the caller's additional_config object
                    \* after the call and what the call returned

VARIABLES
    retryCall       \* the call of retry under check: its arguments, the
                    \* attempt it is in, where it is, what it did so far
                    \* (history) and how it ended

utilVars == <<serviceVars, runConfig, retryCall>>

\* what the graph service leaves alone
outsideService == <<runVars, cronVars, pureVars, apiVars, lifeVars,
                    astreamCalls, waiter, runConfig, retryCall>>

restVars == <<pureVars, apiVars, lifeVars, astreamCalls, waiter, utilVars>>

vars == <<runVars, cronVars, restVars>>

NoSubscriber == [run |-> 0, seen |-> <<>>]

\* a JSON object is the set of its leaves: the path of keys that leads to a
\* leaf, and the leaf's value
EmptyDict == {}

NoRun == [status |-> "absent", thread_id |-> 0, output |-> None,
          error_message |-> None, updated_at |-> 0,
          config |-> EmptyDict, context |-> EmptyDict]

NoFinish == [args |-> [run_id |-> 0, status |-> None, output |-> None,
                       error |-> None],
             calls |-> 0, first |-> NoRun]

\* ------------------------------------------------------------------------
\* Persistence helpers
\* ------------------------------------------------------------------------

\* UPDATE thread SET status = s WHERE thread_id = t  (no row: nothing happens)
set_thread_status(ts, t, s) ==
    IF t \in DOMAIN ts /\ ts[t] # "absent" THEN [ts EXCEPT ![t] = s] ELSE ts

\* an UPDATE of the runs table without its WHERE clause
update_run_status_AllRows(rs, r, s, o, e) ==
    [q \in DOMAIN rs |->
        IF rs[q].status = "absent" THEN rs[q]
        ELSE [rs[q] EXCEPT
                 !.status = s,
                 !.updated_at = clock,
                 !.output = IF o # None THEN o ELSE @,
                 !.error_message = IF e # None THEN e ELSE @]]

\* UPDATE runs SET status = s [, output = o] [, error_message = e]
\* WHERE run_id = r; a None argument leaves the column alone.
update_run_status(rs, r, s, o, e) ==
    IF rs[r].status = "absent" THEN rs
    ELSE [rs EXCEPT ![r] = [@ EXCEPT
              !.status = s,
              !.updated_at = clock,
              !.output = IF o # None THEN o ELSE @,
              !.error_message = IF e # None THEN e ELSE @]]

\* the bare status UPDATE the endpoints issue
EndpointStatusUpdate(rs, r, s) ==
    IF rs[r].status = "absent" THEN rs
    ELSE [rs EXCEPT ![r] = [@ EXCEPT !.status = s, !.updated_at = clock]]

TaskDone(r) == taskPc[r] \in {"none", "done"}

\* streaming_service.cancel_run: hard cancel, Task.cancel() on the tracked task
cancel_run(mc, r) ==
    IF r \in active_runs /\ ~TaskDone(r) THEN [mc EXCEPT ![r] = TRUE] ELSE mc

\* streaming_service.interrupt_run: advisory request to the collaborator, which
\* may stop its stream early or not; the task itself is left alone
interrupt_run(mc, r) == mc

\* streaming_service.cleanup_run and active_runs.pop(run_id, None)
cleanup_run(cc, r) == [cc EXCEPT ![r] = @ + 1]

active_runs_pop(ar, r) == ar \ {r}

\* the sequence number an event id {run_id}_event_{sequence} carries
SequenceOf(id) == id[2]

LastSequence(seen) == IF seen = <<>> THEN 0 ELSE SequenceOf(seen[Len(seen)])

\* broker: offer the event to every consumer attached to run r at this moment;
\* a consumer passes on only what is newer than the last event it sent
put_to_broker(subs, r, id) ==
    [s \in SubscriberIds |->
        IF subs[s].run = r /\ SequenceOf(id) > LastSequence(subs[s].seen)
        THEN [subs[s] EXCEPT !.seen = Append(@, id)]
        ELSE subs[s]]

\* ------------------------------------------------------------------------
\* Initial state: empty tables, nothing in flight
\* ------------------------------------------------------------------------
\* the run ids of this behaviour: the keys the run table and the per-run
\* state are laid out for
RunIds == DOMAIN runs

\* tables and per-run state for the run ids `ids`
RunStart(ids) ==
    /\ threadStatus = [t \in ThreadIds |-> "absent"]
    /\ runs = [r \in ids |-> NoRun]
    /\ active_runs = {}
    /\ taskPc = [r \in ids |-> "none"]
    /\ mustCancel = [r \in ids |-> FALSE]
    /\ taskOutcome = [r \in ids |-> None]
    /\ eventCounter = [r \in ids |-> 0]
    /\ finalOutput = [r \in ids |-> NoPayload]
    /\ brokerEvents = [r \in ids |-> <<>>]
    /\ storedEvents = [r \in ids |-> <<>>]
    /\ brokerSignal = [r \in ids |-> <<>>]
    /\ cleanupCount = [r \in ids |-> 0]
    /\ rawEvent = [r \in ids |-> None]
    /\ exc = [r \in ids |-> None]
    /\ shutdown = FALSE
    /\ cancelAtRunning = [r \in ids |-> FALSE]
    /\ statusWrites = [r \in ids |-> <<>>]
    /\ subscribers = [s \in SubscriberIds |-> NoSubscriber]

RunInit == RunStart(RunRows)

\* ------------------------------------------------------------------------
\* Request handlers
\* ------------------------------------------------------------------------

\* the uuid4 of a new row: ids are handed out in order
NextRunId == CHOOSE r \in RunIds :
                 /\ runs[r].status = "absent"
                 /\ \A q \in RunIds : q < r => runs[q].status # "absent"

NextThreadId == CHOOSE t \in ThreadIds :
                    /\ threadStatus[t] = "absent"
                    /\ \A q \in ThreadIds : q < t => threadStatus[q] # "absent"

\* POST /chat/new
create_chat ==
    /\ ~shutdown
    /\ \E t \in ThreadIds : threadStatus[t] = "absent"
    /\ threadStatus' = [threadStatus EXCEPT ![NextThreadId] = "idle"]
    /\ UNCHANGED <<runs, active_runs, taskPc, mustCancel, taskOutcome,
                   eventCounter, finalOutput, brokerEvents, storedEvents,
                   brokerSignal, cleanupCount, rawEvent, exc, shutdown,
                   cancelAtRunning, statusWrites, subscribers>>
    /\ UNCHANGED cronVars
    /\ UNCHANGED restVars

\* the rows of the runs table
RunCount == Cardinality({q \in RunIds : runs[q].status # "absent"})

\* what both creation endpoints do once the request has been validated:
\* thread busy, run row with the endpoint's initial status, task created and
\* registered (no await between create_task and the registration)
PersistAndLaunch(t, initialStatus, config, context) ==
    LET r == NextRunId IN
    /\ ~shutdown
    /\ \E q \in RunIds : runs[q].status = "absent"
    /\ threadStatus' = set_thread_status(threadStatus, t, "busy")
    /\ runs' = [runs EXCEPT ![r] = [status |-> initialStatus, thread_id |-> t,
                                    output |-> None, error_message |-> None,
                                    updated_at |-> clock,
                                    config |-> config, context |-> context]]
    /\ taskPc' = [taskPc EXCEPT ![r] = "created"]
    /\ active_runs' = active_runs \cup {r}
    /\ UNCHANGED <<mustCancel, taskOutcome, eventCounter, finalOutput,
                   brokerEvents, storedEvents, brokerSignal, cleanupCount,
                   rawEvent, exc, shutdown, cancelAtRunning, statusWrites,
                   subscribers>>

\* a request that passes every check, on a stored thread, with no settings of
\* its own for an assistant that has none
StartRun(t, initialStatus) ==
    /\ RunCount < MaxRuns
    /\ threadStatus[t] # "absent"
    /\ PersistAndLaunch(t, initialStatus, EmptyDict, EmptyDict)
    /\ UNCHANGED cronVars
    /\ UNCHANGED restVars

\* POST /chat/{thread_id}/runs
create_run == \E t \in ThreadIds : StartRun(t, "pending")

\* POST /threads/{thread_id}/runs/stream
create_and_stream_run ==
    \E t \in ThreadIds : StartRun(t, "streaming")

\* streaming_service.stream_run_execution: a consumer attaches to the stream of
\* run r; it is sent the events the log holds, in order, and from then on
\* the events offered live
stream_run_execution(s, r) ==
    /\ ~shutdown
    /\ runs[r].status # "absent"
    /\ subscribers[s] = NoSubscriber
    /\ subscribers' = [subscribers EXCEPT ![s] =
                           [run |-> r,
                            seen |-> [i \in DOMAIN storedEvents[r] |->
                                         storedEvents[r][i].id]]]
    /\ UNCHANGED <<threadStatus, runs, active_runs, taskPc, mustCancel,
                   taskOutcome, eventCounter, finalOutput, brokerEvents,
                   storedEvents, brokerSignal, cleanupCount, rawEvent, exc,
                   shutdown, cancelAtRunning, statusWrites>>
    /\ UNCHANGED cronVars
    /\ UNCHANGED restVars

\* the cancel/interrupt branch shared by cancel_run_endpoint and update_run.
\* run_id is a uuid4 a client learns from the creation endpoint's response,
\* and the event loop runs the first step of the new task before it reads a
\* further request: a stop request never finds the task unstarted.
StopAndPersist(r, action) ==
    /\ ~shutdown
    /\ runs[r].status # "absent"
    /\ taskPc[r] # "created"
    /\ mustCancel' = IF action = "cancel" THEN cancel_run(mustCancel, r)
                     ELSE interrupt_run(mustCancel, r)
    /\ runs' = EndpointStatusUpdate(runs, r,
                   IF action = "cancel" THEN "cancelled" ELSE "interrupted")
    /\ cancelAtRunning' = [cancelAtRunning EXCEPT ![r] =
                               @ \/ (action = "cancel"
                                     /\ runs[r].status = "running")]
    /\ UNCHANGED <<threadStatus, active_runs, taskPc, taskOutcome,
                   eventCounter, finalOutput, brokerEvents, storedEvents,
                   brokerSignal, cleanupCount, rawEvent, exc, shutdown,
                   statusWrites, subscribers>>

\* the request with wait=0: the handler reloads the run and returns
RequestStop(r, action) ==
    /\ StopAndPersist(r, action)
    /\ UNCHANGED cronVars
    /\ UNCHANGED restVars

\* POST /chat/{thread_id}/runs/{run_id}/cancel?action=...
cancel_run_endpoint ==
    \E r \in RunIds, action \in {"cancel", "interrupt"} : RequestStop(r, action)

\* PATCH /chat/{thread_id}/runs/{run_id} with status cancelled or interrupted
update_run ==
    \E r \in RunIds, status \in {"cancelled", "interrupted"} :
        RequestStop(r, IF status = "cancelled" THEN "cancel" ELSE "interrupt")

\* shutdown_event: cancel every tracked task that is not done
shutdown_event ==
    /\ ~shutdown
    /\ shutdown' = TRUE
    /\ mustCancel' = [r \in RunIds |->
                        IF r \in active_runs /\ ~TaskDone(r) THEN TRUE
                        ELSE mustCancel[r]]
    /\ UNCHANGED <<threadStatus, runs, active_runs, taskPc, taskOutcome,
                   eventCounter, finalOutput, brokerEvents, storedEvents,
                   brokerSignal, cleanupCount, rawEvent, exc, cancelAtRunning,
                   statusWrites, subscribers>>
    /\ UNCHANGED cronVars
    /\ UNCHANGED restVars

\* ------------------------------------------------------------------------
\* execute_run_async: the background task of run r.  taskPc[r] names the await
\* the coroutine is suspended at; an action is the code from the completion of
\* that await to the next one.  A pending Task.cancel() makes the await raise
\* CancelledError instead of completing.
\* ------------------------------------------------------------------------
TryAwaits == {"set_running", "astream", "put", "store", "put_end", "store_end",
              "set_completed", "idle_completed"}
CancelHandlerAwaits == {"cancel_status", "cancel_idle", "cancel_signal"}
ErrorHandlerAwaits == {"fail_status", "fail_idle", "fail_signal"}

Event(r, kind, status, out) ==
    [id |-> <<r, eventCounter[r]>>, kind |-> kind, status |-> status,
     final_output |-> out]

\* a finally block that forgets active_runs.pop
Finally_NoPop(r, outcome) ==
    /\ cleanupCount' = cleanup_run(cleanupCount, r)
    /\ active_runs' = active_runs
    /\ taskPc' = [taskPc EXCEPT ![r] = "done"]
    /\ taskOutcome' = [taskOutcome EXCEPT ![r] = outcome]

\* finally: cleanup_run(run_id); active_runs.pop(run_id, None); the task ends
Finally(r, outcome) ==
    /\ cleanupCount' = cleanup_run(cleanupCount, r)
    /\ active_runs' = active_runs_pop(active_runs, r)
    /\ taskPc' = [taskPc EXCEPT ![r] = "done"]
    /\ taskOutcome' = [taskOutcome EXCEPT ![r] = outcome]

Runnable(r, pc) == taskPc[r] = pc /\ ~mustCancel[r]

\* the event loop runs the coroutine up to its first await
Exec_Start(r) ==
    /\ Runnable(r, "created")
    /\ taskPc' = [taskPc EXCEPT ![r] = "set_running"]
    /\ UNCHANGED <<threadStatus, runs, active_runs, mustCancel, taskOutcome,
                   eventCounter, finalOutput, brokerEvents, storedEvents,
                   brokerSignal, cleanupCount, rawEvent, exc, shutdown,
                   cancelAtRunning, statusWrites, subscribers>>
    /\ UNCHANGED cronVars
    /\ UNCHANGED restVars

\* a first step that goes on to the stream without the status write
Exec_SetRunning_NoWrite(r) ==
    /\ Runnable(r, "set_running")
    /\ astreamCalls' = [astreamCalls EXCEPT ![r] = @ + 1]
    /\ taskPc' = [taskPc EXCEPT ![r] = "astream"]
    /\ UNCHANGED <<threadStatus, runs, active_runs, mustCancel, taskOutcome,
                   eventCounter, finalOutput, brokerEvents, storedEvents,
                   brokerSignal, cleanupCount, rawEvent, exc, shutdown,
                   cancelAtRunning, statusWrites, subscribers>>
    /\ UNCHANGED cronVars
    /\ UNCHANGED <<pureVars, apiVars, lifeVars, waiter, utilVars>>

\* update_run_status(run_id, "running"); get_graph; graph.astream(...) begins
Exec_SetRunning(r) ==
    /\ Runnable(r, "set_running")
    /\ runs' = update_run_status(runs, r, "running", None, None)
    /\ statusWrites' = [statusWrites EXCEPT ![r] = Append(@, "running")]
    /\ astreamCalls' = [astreamCalls EXCEPT ![r] = @ + 1]
    /\ taskPc' = [taskPc EXCEPT ![r] = "astream"]
    /\ UNCHANGED <<threadStatus, active_runs, mustCancel, taskOutcome,
                   eventCounter, finalOutput, brokerEvents, storedEvents,
                   brokerSignal, cleanupCount, rawEvent, exc, shutdown,
                   cancelAtRunning, subscribers>>
    /\ UNCHANGED cronVars
    /\ UNCHANGED <<pureVars, apiVars, lifeVars, waiter, utilVars>>

\* the graph yields a raw event: event_counter += 1, then put_to_broker
Exec_GraphEvent(r) ==
    /\ Runnable(r, "astream")
    /\ eventCounter[r] < MaxEvents
    /\ \E kind \in GraphEventKinds :
           rawEvent' = [rawEvent EXCEPT ![r] = kind]
    /\ eventCounter' = [eventCounter EXCEPT ![r] = @ + 1]
    /\ taskPc' = [taskPc EXCEPT ![r] = "put"]
    /\ UNCHANGED <<threadStatus, runs, active_runs, mustCancel, taskOutcome,
                   finalOutput, brokerEvents, storedEvents, brokerSignal,
                   cleanupCount, exc, shutdown, cancelAtRunning, statusWrites,
                   subscribers>>
    /\ UNCHANGED cronVars
    /\ UNCHANGED restVars

\* put_to_broker(run_id, event_id, raw_event) completes
Exec_Put(r) ==
    /\ Runnable(r, "put")
    /\ brokerEvents' = [brokerEvents EXCEPT ![r] =
                           Append(@, Event(r, rawEvent[r], None, NoPayload))]
    /\ subscribers' = put_to_broker(subscribers, r, <<r, eventCounter[r]>>)
    /\ taskPc' = [taskPc EXCEPT ![r] = "store"]
    /\ UNCHANGED <<threadStatus, runs, active_runs, mustCancel, taskOutcome,
                   eventCounter, finalOutput, storedEvents, brokerSignal,
                   cleanupCount, rawEvent, exc, shutdown, cancelAtRunning,
                   statusWrites>>
    /\ UNCHANGED cronVars
    /\ UNCHANGED restVars

\* store_event_from_raw completes; final_output tracks the last values event
Exec_Store(r) ==
    /\ Runnable(r, "store")
    /\ storedEvents' = [storedEvents EXCEPT ![r] =
                           Append(@, Event(r, rawEvent[r], None, NoPayload))]
    /\ finalOutput' = [finalOutput EXCEPT ![r] =
                          IF rawEvent[r] = "values"
                          THEN Payload(eventCounter[r])
                          ELSE @]
    /\ taskPc' = [taskPc EXCEPT ![r] = "astream"]
    /\ UNCHANGED <<threadStatus, runs, active_runs, mustCancel, taskOutcome,
                   eventCounter, brokerEvents, brokerSignal, cleanupCount,
                   rawEvent, exc, shutdown, cancelAtRunning, statusWrites,
                   subscribers>>
    /\ UNCHANGED cronVars
    /\ UNCHANGED restVars

\* the graph's stream ends: event_counter += 1, put_to_broker(end_event)
Exec_GraphEnd(r) ==
    /\ Runnable(r, "astream")
    /\ eventCounter' = [eventCounter EXCEPT ![r] = @ + 1]
    /\ rawEvent' = [rawEvent EXCEPT ![r] = "end"]
    /\ taskPc' = [taskPc EXCEPT ![r] = "put_end"]
    /\ UNCHANGED <<threadStatus, runs, active_runs, mustCancel, taskOutcome,
                   finalOutput, brokerEvents, storedEvents, brokerSignal,
                   cleanupCount, exc, shutdown, cancelAtRunning, statusWrites,
                   subscribers>>
    /\ UNCHANGED cronVars
    /\ UNCHANGED restVars

Exec_PutEnd(r) ==
    /\ Runnable(r, "put_end")
    /\ brokerEvents' = [brokerEvents EXCEPT ![r] =
                           Append(@, Event(r, "end", "completed", finalOutput[r]))]
    /\ subscribers' = put_to_broker(subscribers, r, <<r, eventCounter[r]>>)
    /\ taskPc' = [taskPc EXCEPT ![r] = "store_end"]
    /\ UNCHANGED <<threadStatus, runs, active_runs, mustCancel, taskOutcome,
                   eventCounter, finalOutput, storedEvents, brokerSignal,
                   cleanupCount, rawEvent, exc, shutdown, cancelAtRunning,
                   statusWrites>>
    /\ UNCHANGED cronVars
    /\ UNCHANGED restVars

\* store_event_from_raw(end_event) completes; update_run_status begins
Exec_StoreEnd(r) ==
    /\ Runnable(r, "store_end")
    /\ storedEvents' = [storedEvents EXCEPT ![r] =
                           Append(@, Event(r, "end", "completed", finalOutput[r]))]
    /\ taskPc' = [taskPc EXCEPT ![r] = "set_completed"]
    /\ UNCHANGED <<threadStatus, runs, active_runs, mustCancel, taskOutcome,
                   eventCounter, finalOutput, brokerEvents, brokerSignal,
                   cleanupCount, rawEvent, exc, shutdown, cancelAtRunning,
                   statusWrites, subscribers>>
    /\ UNCHANGED cronVars
    /\ UNCHANGED restVars

\* a completion write that passes no output
Exec_SetCompleted_NoOutput(r) ==
    /\ Runnable(r, "set_completed")
    /\ runs' = update_run_status(runs, r, "completed", None, None)
    /\ statusWrites' = [statusWrites EXCEPT ![r] = Append(@, "completed")]
    /\ taskPc' = [taskPc EXCEPT ![r] = "idle_completed"]
    /\ UNCHANGED <<threadStatus, active_runs, mustCancel, taskOutcome,
                   eventCounter, finalOutput, brokerEvents, storedEvents,
                   brokerSignal, cleanupCount, rawEvent, exc, shutdown,
                   cancelAtRunning, subscribers>>
    /\ UNCHANGED cronVars
    /\ UNCHANGED restVars

\* update_run_status(run_id, "completed", output={}) commits
Exec_SetCompleted(r) ==
    /\ Runnable(r, "set_completed")
    /\ runs' = update_run_status(runs, r, "completed", EmptyJson, None)
    /\ statusWrites' = [statusWrites EXCEPT ![r] = Append(@, "completed")]
    /\ taskPc' = [taskPc EXCEPT ![r] = "idle_completed"]
    /\ UNCHANGED <<threadStatus, active_runs, mustCancel, taskOutcome,
                   eventCounter, finalOutput, brokerEvents, storedEvents,
                   brokerSignal, cleanupCount, rawEvent, exc, shutdown,
                   cancelAtRunning, subscribers>>
    /\ UNCHANGED cronVars
    /\ UNCHANGED restVars

\* set_thread_status(session, thread_id, "idle") commits; finally; return
Exec_IdleCompleted(r) ==
    /\ Runnable(r, "idle_completed")
    /\ threadStatus' = set_thread_status(threadStatus, runs[r].thread_id, "idle")
    /\ Finally(r, "returned")
    /\ UNCHANGED <<runs, mustCancel, eventCounter, finalOutput, brokerEvents,
                   storedEvents, brokerSignal, rawEvent, exc, shutdown,
                   cancelAtRunning, statusWrites, subscribers>>
    /\ UNCHANGED cronVars
    /\ UNCHANGED restVars

\* the graph raises and the body is entered again for a second attempt
Exec_GraphRaise_Retry(r) ==
    /\ Runnable(r, "astream")
    /\ astreamCalls[r] < 2
    /\ taskPc' = [taskPc EXCEPT ![r] = "set_running"]
    /\ UNCHANGED <<threadStatus, runs, active_runs, mustCancel, taskOutcome,
                   eventCounter, finalOutput, brokerEvents, storedEvents,
                   brokerSignal, cleanupCount, rawEvent, exc, shutdown,
                   cancelAtRunning, statusWrites, subscribers>>
    /\ UNCHANGED cronVars
    /\ UNCHANGED restVars

\* the graph raises: except Exception as e, update_run_status(failed) begins
Exec_GraphRaise(r) ==
    /\ Runnable(r, "astream")
    /\ \E msg \in GraphErrors : exc' = [exc EXCEPT ![r] = msg]
    /\ taskPc' = [taskPc EXCEPT ![r] = "fail_status"]
    /\ UNCHANGED <<threadStatus, runs, active_runs, mustCancel, taskOutcome,
                   eventCounter, finalOutput, brokerEvents, storedEvents,
                   brokerSignal, cleanupCount, rawEvent, shutdown, cancelAtRunning,
                   statusWrites, subscribers>>
    /\ UNCHANGED cronVars
    /\ UNCHANGED restVars

\* update_run_status(run_id, "failed", output={}, error=str(e)) commits
Exec_FailStatus(r) ==
    /\ Runnable(r, "fail_status")
    /\ runs' = update_run_status(runs, r, "failed", EmptyJson, exc[r])
    /\ statusWrites' = [statusWrites EXCEPT ![r] = Append(@, "failed")]
    /\ taskPc' = [taskPc EXCEPT ![r] = "fail_idle"]
    /\ UNCHANGED <<threadStatus, active_runs, mustCancel, taskOutcome,
                   eventCounter, finalOutput, brokerEvents, storedEvents,
                   brokerSignal, cleanupCount, rawEvent, exc, shutdown,
                   cancelAtRunning, subscribers>>
    /\ UNCHANGED cronVars
    /\ UNCHANGED restVars

Exec_FailIdle(r) ==
    /\ Runnable(r, "fail_idle")
    /\ threadStatus' = set_thread_status(threadStatus, runs[r].thread_id, "idle")
    /\ taskPc' = [taskPc EXCEPT ![r] = "fail_signal"]
    /\ UNCHANGED <<runs, active_runs, mustCancel, taskOutcome, eventCounter,
                   finalOutput, brokerEvents, storedEvents, brokerSignal,
                   cleanupCount, rawEvent, exc, shutdown, cancelAtRunning,
                   statusWrites, subscribers>>
    /\ UNCHANGED cronVars
    /\ UNCHANGED restVars

\* signal_run_error(run_id, str(e)) completes; raise; finally
Exec_FailSignal(r) ==
    /\ Runnable(r, "fail_signal")
    /\ brokerSignal' = [brokerSignal EXCEPT ![r] =
                           Append(@, [kind |-> "error", message |-> exc[r]])]
    /\ Finally(r, "raised")
    /\ UNCHANGED <<threadStatus, runs, mustCancel, eventCounter, finalOutput,
                   brokerEvents, storedEvents, rawEvent, exc, shutdown,
                   cancelAtRunning, statusWrites, subscribers>>
    /\ UNCHANGED cronVars
    /\ UNCHANGED restVars

\* Task.cancel() is delivered: the current await raises CancelledError.
\*  - coroutine not yet started: the task ends without entering the body
\*  - inside the try body: except asyncio.CancelledError is entered
\*  - inside an except clause: only the finally block runs
Exec_CancelledError(r) ==
    /\ mustCancel[r]
    /\ ~TaskDone(r)
    /\ mustCancel' = [mustCancel EXCEPT ![r] = FALSE]
    /\ IF taskPc[r] = "created"
       THEN /\ taskPc' = [taskPc EXCEPT ![r] = "done"]
            /\ taskOutcome' = [taskOutcome EXCEPT ![r] = "cancelled"]
            /\ UNCHANGED <<active_runs, cleanupCount>>
       ELSE IF taskPc[r] \in TryAwaits
       THEN /\ taskPc' = [taskPc EXCEPT ![r] = "cancel_status"]
            /\ UNCHANGED <<active_runs, cleanupCount, taskOutcome>>
       ELSE Finally(r, "cancelled")
    /\ UNCHANGED <<threadStatus, runs, eventCounter, finalOutput, brokerEvents,
                   storedEvents, brokerSignal, rawEvent, exc, shutdown,
                   cancelAtRunning, statusWrites, subscribers>>
    /\ UNCHANGED cronVars
    /\ UNCHANGED restVars

\* update_run_status(run_id, "cancelled", output={}) commits
Exec_CancelStatus(r) ==
    /\ Runnable(r, "cancel_status")
    /\ runs' = update_run_status(runs, r, "cancelled", EmptyJson, None)
    /\ statusWrites' = [statusWrites EXCEPT ![r] = Append(@, "cancelled")]
    /\ taskPc' = [taskPc EXCEPT ![r] = "cancel_idle"]
    /\ UNCHANGED <<threadStatus, active_runs, mustCancel, taskOutcome,
                   eventCounter, finalOutput, brokerEvents, storedEvents,
                   brokerSignal, cleanupCount, rawEvent, exc, shutdown,
                   cancelAtRunning, subscribers>>
    /\ UNCHANGED cronVars
    /\ UNCHANGED restVars

Exec_CancelIdle(r) ==
    /\ Runnable(r, "cancel_idle")
    /\ threadStatus' = set_thread_status(threadStatus, runs[r].thread_id, "idle")
    /\ taskPc' = [taskPc EXCEPT ![r] = "cancel_signal"]
    /\ UNCHANGED <<runs, active_runs, mustCancel, taskOutcome, eventCounter,
                   finalOutput, brokerEvents, storedEvents, brokerSignal,
                   cleanupCount, rawEvent, exc, shutdown, cancelAtRunning,
                   statusWrites, subscribers>>
    /\ UNCHANGED cronVars
    /\ UNCHANGED restVars

\* signal_run_cancelled(run_id) completes; raise; finally
Exec_CancelSignal(r) ==
    /\ Runnable(r, "cancel_signal")
    /\ brokerSignal' = [brokerSignal EXCEPT ![r] =
                           Append(@, [kind |-> "cancelled", message |-> None])]
    /\ Finally(r, "cancelled")
    /\ UNCHANGED <<threadStatus, runs, mustCancel, eventCounter, finalOutput,
                   brokerEvents, storedEvents, rawEvent, exc, shutdown,
                   cancelAtRunning, statusWrites, subscribers>>
    /\ UNCHANGED cronVars
    /\ UNCHANGED restVars

\* the steps of the try body up to the normal return
ExecNormal(r) ==
    \/ Exec_Start(r)
    \/ Exec_SetRunning(r)
    \/ Exec_GraphEvent(r)
    \/ Exec_Put(r)
    \/ Exec_Store(r)
    \/ Exec_GraphEnd(r)
    \/ Exec_PutEnd(r)
    \/ Exec_StoreEnd(r)
    \/ Exec_SetCompleted(r)
    \/ Exec_IdleCompleted(r)

\* the graph raising and the except Exception clause
ExecError(r) ==
    \/ Exec_GraphRaise(r)
    \/ Exec_FailStatus(r)
    \/ Exec_FailIdle(r)
    \/ Exec_FailSignal(r)

\* delivery of a cancellation and the except CancelledError clause
ExecCancel(r) ==
    \/ Exec_CancelledError(r)
    \/ Exec_CancelStatus(r)
    \/ Exec_CancelIdle(r)
    \/ Exec_CancelSignal(r)

\* one step of the background task of run r
execute_run_async(r) == ExecNormal(r) \/ ExecError(r) \/ ExecCancel(r)

\* ------------------------------------------------------------------------
\* Part 2: the cron trigger loop
\* ------------------------------------------------------------------------
CronIds == 1..MaxCrons
MaxClock == (MaxMinute + 1) * SubsPerMinute - 1

\* the cron expressions clients store; create_cron does not validate them
CronExprs == {"*/5 * * * *", "* * * * *", "every 5 min"}

\* croniter.is_valid
is_valid(e) == e \in {"*/5 * * * *", "* * * * *"}

\* the step of a valid expression's minute field
Period(e) == IF e = "*/5 * * * *" THEN 5 ELSE 1

MinuteOf(c) == c \div SubsPerMinute

\* datetime.replace(second=0, microsecond=0)
TruncateToMinute(c) == MinuteOf(c) * SubsPerMinute

\* the instants at which expression e fires: the exact starts of the minutes
\* that match it (11:55 or 11:59 is the one before the clock starts)
FireTimes(e) ==
    {k * Period(e) * SubsPerMinute : k \in (-1)..(MaxMinute \div Period(e))}

\* a comparison against the start of the latest minute before base, whatever
\* the expression says
get_prev_LastMinute(e, base) == TruncateToMinute(base - 1)

\* croniter(e, base).get_prev(datetime): the latest fire time strictly before
\* base (a base that is itself a fire time is not returned)
get_prev(e, base) ==
    CHOOSE f \in FireTimes(e) :
        /\ f < base
        /\ \A g \in FireTimes(e) : g < base => g <= f

\* required_fields of a stored row: a JSON object (the column default and
\* every dict a client sends) or JSON null (CronCreate lets a client send null)
RequiredFields == {EmptyJson, None}

NoCron == [schedule |-> None, enabled |-> FALSE, required_fields |-> EmptyJson]

\* a timestamp column that is NULL
NoTime == 0 - 1

NoOutput == [status |-> None, output |-> None]

CronInit ==
    /\ clock = 0
    /\ crons = [c \in CronIds |-> NoCron]
    /\ cronRuns = <<>>
    /\ trigPc = "idle"
    /\ trigNow = 0
    /\ scenario = "start"
    /\ dispPc = "idle"
    /\ dispQueue = <<>>
    /\ dispOutput = NoOutput
    /\ invocations = [i \in 1..MaxCronRuns |-> 0]

\* time passes
ClockTick ==
    /\ clock < MaxClock
    /\ clock' = clock + 1
    /\ UNCHANGED <<crons, cronRuns, trigPc, trigNow, scenario>>
    /\ UNCHANGED dispVars
    /\ UNCHANGED runVars
    /\ UNCHANGED restVars

NextCronId == CHOOSE c \in CronIds :
                  /\ crons[c].schedule = None
                  /\ \A q \in CronIds : q < c => crons[q].schedule # None

\* POST /cron: the row is stored as given, enabled by default, and committed
\* before the handler validates it for its answer
create_cron_with(e, rf) ==
    /\ \E c \in CronIds : crons[c].schedule = None
    /\ crons' = [crons EXCEPT ![NextCronId] =
                    [schedule |-> e, enabled |-> TRUE, required_fields |-> rf]]
    /\ UNCHANGED <<clock, cronRuns, trigPc, trigNow, scenario>>
    /\ UNCHANGED dispVars
    /\ UNCHANGED runVars
    /\ UNCHANGED restVars

\* POST /cron with required_fields left out or given as an object
create_cron == \E e \in CronExprs : create_cron_with(e, EmptyJson)

\* POST /cron with "required_fields": null
create_cron_null == \E e \in CronExprs : create_cron_with(e, None)

\* POST /cron/{cron_id} with the enabled flag
update_cron ==
    /\ \E c \in CronIds, en \in BOOLEAN :
           /\ crons[c].schedule # None
           /\ crons[c].enabled # en
           /\ crons' = [crons EXCEPT ![c].enabled = en]
    /\ UNCHANGED <<clock, cronRuns, trigPc, trigNow, scenario>>
    /\ UNCHANGED dispVars
    /\ UNCHANGED runVars
    /\ UNCHANGED restVars

\* check_and_schedule_cron_jobs up to its first await:
\* now = datetime.now(UTC).replace(second=0, microsecond=0); the SELECT begins
check_and_schedule_begin ==
    /\ trigPc = "idle"
    /\ trigNow' = TruncateToMinute(clock)
    /\ trigPc' = "select"
    /\ UNCHANGED <<clock, crons, cronRuns, scenario>>
    /\ UNCHANGED dispVars
    /\ UNCHANGED runVars
    /\ UNCHANGED restVars

\* a loop in which an expression that fails validation raises: the tick ends
\* before its commit and adds nothing
DueCrons_InvalidRaises(now, base_time) ==
    IF \E c \in CronIds : /\ crons[c].schedule # None
                           /\ crons[c].enabled
                           /\ ~is_valid(crons[c].schedule)
    THEN {}
    ELSE {c \in CronIds :
             /\ crons[c].schedule # None
             /\ crons[c].enabled
             /\ get_prev(crons[c].schedule, base_time) = now}

\* the crons the loop adds a CronRun for: enabled, valid, and the previous
\* fire time seen from base_time = datetime.now(UTC) equals now
DueCrons(now, base_time) ==
    {c \in CronIds :
        /\ crons[c].schedule # None
        /\ crons[c].enabled
        /\ is_valid(crons[c].schedule)
        /\ get_prev(crons[c].schedule, base_time) = now}

RECURSIVE NewCronRuns(_, _, _)
\* session.add(CronRunORM(cron_id=..., status="scheduled")) in cron order
NewCronRuns(due, c, now) ==
    IF c > MaxCrons THEN <<>>
    ELSE (IF c \in due
          THEN <<[cron_id |-> c, status |-> "scheduled", by |-> "trigger",
                  minute |-> MinuteOf(now), output |-> None,
                  started_at |-> NoTime, completed_at |-> NoTime]>>
          ELSE <<>>) \o NewCronRuns(due, c + 1, now)

\* History of the evaluations: the first schedule is enabled with "*/5 * * * *"
\* at each of them, the first is made shortly after 12:00:00, the second at
\* 12:00:30, the third shortly after 12:05:00, and there is no other one.
ScenarioCron == CHOOSE c \in CronIds : \A q \in CronIds : c <= q
At_12_00_00 == 0 * SubsPerMinute + 1
At_12_00_30 == SubsPerMinute - 1
At_12_05_00 == 5 * SubsPerMinute + 1

ScenarioAfter(sc, now, base_time) ==
    IF /\ crons[ScenarioCron].schedule = "*/5 * * * *"
       /\ crons[ScenarioCron].enabled
       /\ now = TruncateToMinute(base_time)
    THEN (IF sc = "start" /\ base_time = At_12_00_00 THEN "after_12_00_00"
          ELSE IF sc = "after_12_00_00" /\ base_time = At_12_00_30
               THEN "after_12_00_30"
          ELSE IF sc = "after_12_00_30" /\ base_time = At_12_05_00
               THEN "after_12_05_00"
          ELSE "off")
    ELSE "off"

\* a tick whose SELECT has no WHERE enabled
check_and_schedule_commit_AnyRow ==
    /\ trigPc = "select"
    /\ LET due == {c \in CronIds :
                      /\ crons[c].schedule # None
                      /\ is_valid(crons[c].schedule)
                      /\ get_prev(crons[c].schedule, clock) = trigNow}
           new == NewCronRuns(due, 1, trigNow)
       IN /\ Len(cronRuns) + Len(new) <= MaxCronRuns
          /\ cronRuns' = cronRuns \o new
          /\ scenario' = ScenarioAfter(scenario, trigNow, clock)
    /\ trigPc' = "idle"
    /\ UNCHANGED <<clock, crons, trigNow>>
    /\ UNCHANGED dispVars
    /\ UNCHANGED runVars
    /\ UNCHANGED restVars

\* the SELECT returns, the loop runs at base_time, the session commits
check_and_schedule_commit ==
    /\ trigPc = "select"
    /\ LET due == DueCrons(trigNow, clock)
           new == NewCronRuns(due, 1, trigNow)
       IN /\ Len(cronRuns) + Len(new) <= MaxCronRuns
          /\ cronRuns' = cronRuns \o new
          /\ scenario' = ScenarioAfter(scenario, trigNow, clock)
    /\ trigPc' = "idle"
    /\ UNCHANGED <<clock, crons, trigNow>>
    /\ UNCHANGED dispVars
    /\ UNCHANGED runVars
    /\ UNCHANGED restVars

\* ------------------------------------------------------------------------
\* Dispatch loop: run_scheduled_jobs claims and executes the scheduled rows.
\* The scheduler runs one instance of the job at a time.
\* ------------------------------------------------------------------------

\* POST /cron/{cron_id}/run: a scheduled row for an existing cron
run_cron_now ==
    /\ Len(cronRuns) < MaxCronRuns
    /\ \E c \in CronIds :
           /\ crons[c].schedule # None
           /\ cronRuns' = Append(cronRuns,
                              [cron_id |-> c, status |-> "scheduled",
                               by |-> "manual", minute |-> MinuteOf(clock),
                               output |-> None, started_at |-> NoTime,
                               completed_at |-> NoTime])
    /\ UNCHANGED <<clock, crons, trigPc, trigNow, scenario>>
    /\ UNCHANGED dispVars
    /\ UNCHANGED runVars
    /\ UNCHANGED restVars

RECURSIVE ScheduledFrom(_)
\* select(CronRunORM).where(status == "scheduled").join(CronORM): the indices
\* of the matching rows from index i on, in table order
ScheduledFrom(i) ==
    IF i > Len(cronRuns) THEN <<>>
    ELSE (IF /\ cronRuns[i].status = "scheduled"
             /\ crons[cronRuns[i].cron_id].schedule # None
          THEN <<i>> ELSE <<>>) \o ScheduledFrom(i + 1)

\* what an execution of run_cron_job can meet
CronJobOutcomes == {"ok", "assistant_missing", "graph_unregistered",
                    "graph_raises"}

LastMessageContent == "last message content"

\* str(e) of the exception run_cron_job catches; a missing assistant makes
\* the function raise a tuple, which the interpreter turns into a TypeError
ErrorText(outcome) ==
    IF outcome = "assistant_missing"
    THEN "exceptions must derive from BaseException"
    ELSE IF outcome = "graph_unregistered" THEN "Graph not found"
    ELSE "graph exception"

\* the dict run_cron_job returns
run_cron_job(outcome) ==
    IF outcome = "ok"
    THEN [status |-> "completed", output |-> LastMessageContent]
    ELSE [status |-> "error", output |-> ErrorText(outcome)]

\* a tick whose SELECT has no WHERE status = 'scheduled'
Dispatch_Select_AnyStatus ==
    /\ dispPc = "idle"
    /\ cronRuns # <<>>
    /\ dispQueue' = [i \in 1..Len(cronRuns) |-> i]
    /\ dispPc' = "claim"
    /\ UNCHANGED <<dispOutput, invocations>>
    /\ UNCHANGED <<clock, crons, cronRuns, trigPc, trigNow, scenario>>
    /\ UNCHANGED runVars
    /\ UNCHANGED restVars

\* a tick of run_scheduled_jobs: the SELECT; nothing scheduled: return
Dispatch_Select ==
    /\ dispPc = "idle"
    /\ ScheduledFrom(1) # <<>>
    /\ dispQueue' = ScheduledFrom(1)
    /\ dispPc' = "claim"
    /\ UNCHANGED <<dispOutput, invocations>>
    /\ UNCHANGED <<clock, crons, cronRuns, trigPc, trigNow, scenario>>
    /\ UNCHANGED runVars
    /\ UNCHANGED restVars

\* top of the for loop: run.status = "running", started_at, commit
Dispatch_Claim ==
    /\ dispPc = "claim"
    /\ cronRuns' = [cronRuns EXCEPT ![Head(dispQueue)] =
                        [@ EXCEPT !.status = "running", !.started_at = clock]]
    /\ dispPc' = "run"
    /\ UNCHANGED <<dispQueue, dispOutput, invocations>>
    /\ UNCHANGED <<clock, crons, trigPc, trigNow, scenario>>
    /\ UNCHANGED runVars
    /\ UNCHANGED restVars

\* Cron.model_validate(run.cron): the model wants required_fields to be a dict
model_validate(cron) == cron.required_fields # None

\* the Cron object joinedload attached to the row
CronOf(i) == crons[cronRuns[i].cron_id]

\* cron = Cron.model_validate(run.cron); cron_run = CronRun.model_validate(run);
\* output = await run_cron_job(cron_run, cron).  A validation error is raised
\* outside run_cron_job's try block: it ends the tick, the row just claimed
\* stays as committed and the rest of scheduled_runs is dropped.
Dispatch_RunCronJob ==
    /\ dispPc = "run"
    /\ IF model_validate(CronOf(Head(dispQueue)))
       THEN /\ \E outcome \in CronJobOutcomes :
                   dispOutput' = run_cron_job(outcome)
            /\ invocations' = [invocations EXCEPT ![Head(dispQueue)] = @ + 1]
            /\ dispPc' = "record"
            /\ UNCHANGED dispQueue
       ELSE /\ dispPc' = "idle"
            /\ dispQueue' = <<>>
            /\ UNCHANGED <<dispOutput, invocations>>
    /\ UNCHANGED <<clock, crons, cronRuns, trigPc, trigNow, scenario>>
    /\ UNCHANGED runVars
    /\ UNCHANGED restVars

\* run.status = output["status"]; run.output = output["output"]; commit; the
\* loop goes on with the next element or the tick ends
Dispatch_Record ==
    /\ dispPc = "record"
    /\ cronRuns' = [cronRuns EXCEPT ![Head(dispQueue)] =
                        [@ EXCEPT !.status = dispOutput.status,
                                  !.output = dispOutput.output,
                                  !.completed_at = clock]]
    /\ dispQueue' = Tail(dispQueue)
    /\ dispOutput' = NoOutput
    /\ dispPc' = IF Tail(dispQueue) = <<>> THEN "idle" ELSE "claim"
    /\ UNCHANGED invocations
    /\ UNCHANGED <<clock, crons, trigPc, trigNow, scenario>>
    /\ UNCHANGED runVars
    /\ UNCHANGED restVars

run_scheduled_jobs ==
    \/ Dispatch_Select
    \/ Dispatch_Claim
    \/ Dispatch_RunCronJob
    \/ Dispatch_Record

\* ------------------------------------------------------------------------
\* Part 4: JSON settings, assistants and the validation of requests
\* ------------------------------------------------------------------------

\* the keys and leaf values of the settings objects that are drawn
TopLevelKeys == {"configurable", "recursion_limit"}
NestedKeys == {"user_id", "model"}
LeafValues == {"v1", "v2"}

Paths == {<<k>> : k \in TopLevelKeys}
             \cup {<<"configurable", n>> : n \in NestedKeys}

Leaves == [path : Paths, value : LeafValues]

IsPrefix(p, q) == Len(p) < Len(q) /\ SubSeq(q, 1, Len(p)) = p

\* a key has one value, and a value is a leaf or an object, not both
IsDict(d) ==
    \A e, f \in d : /\ e.path = f.path => e = f
                    /\ ~IsPrefix(e.path, f.path)

Dicts == {d \in SUBSET Leaves : IsDict(d)}

\* Python's None where an object is expected
NoneObject == {[path |-> <<>>, value |-> None]}

\* d.keys()
TopKeys(d) == {e.path[1] : e \in d}

\* the part of d under key k: d[k] with its key
ValueAt(d, k) == {e \in d : e.path[1] = k}

\* d.get(k, {}) for a key that holds an object
SubObject(d, k) ==
    {[path |-> Tail(e.path), value |-> e.value] :
        e \in {x \in ValueAt(d, k) : Len(x.path) > 1}}

\* d[k] = obj
SetItem(d, k, obj) ==
    {e \in d : e.path[1] # k}
        \cup {[path |-> <<k>> \o e.path, value |-> e.value] : e \in obj}

\* result.update(copy.deepcopy(obj)) with every key of obj at every depth
\* merged into what result holds under it
dict_update_deep(result, obj) ==
    {e \in result : \A f \in obj : /\ f.path # e.path
                                   /\ ~IsPrefix(f.path, e.path)
                                   /\ ~IsPrefix(e.path, f.path)} \cup obj

\* result.update(copy.deepcopy(obj)): every key of obj is set to a copy of
\* the value obj has for it
dict_update(result, obj) ==
    {e \in result : e.path[1] \notin TopKeys(obj)} \cup obj

\* _merge_jsonb(*objects): the loop over the operands from the i-th on
RECURSIVE MergeFrom(_, _, _)
MergeFrom(objects, i, result) ==
    IF i > Len(objects) THEN result
    ELSE MergeFrom(objects, i + 1,
                   IF objects[i] # NoneObject
                   THEN dict_update(result, objects[i]) ELSE result)

merge_jsonb(objects) == MergeFrom(objects, 1, EmptyDict)

\* the graphs langgraph_service.list_graphs() knows, and one an assistant row
\* may still name after it left the registry
AvailableGraphs == {"agent"}
GraphIds == AvailableGraphs \cup {"retired"}

\* uuid5(ASSISTANT_NAMESPACE_UUID, graph id)
Uuid5(g) == "uuid5_" \o g

\* the create_assistant requests that may be in flight together
Requests == 1..MaxRequests

\* str(uuid4()) as request p draws it
Uuid4(p) == "uuid4_" \o ToString(p)

AssistantIds == {"a1", "a2"}
AssistantKeys == AssistantIds \cup {Uuid5(g) : g \in AvailableGraphs}
                     \cup {Uuid4(p) : p \in Requests}

resolve_assistant_id(requested_id, available_graphs) ==
    IF requested_id \in available_graphs THEN Uuid5(requested_id)
    ELSE requested_id

NoMerge == [objects |-> <<>>, result |-> NoneObject, after |-> <<>>,
            done |-> FALSE]

PureInit == finish = NoFinish /\ merged = NoMerge

NoAssistant == [graph_id |-> None, config |-> EmptyDict, context |-> EmptyDict]

NoResponse == [endpoint |-> None, detail |-> None, code |-> 0]

NoRequest == [pc |-> "idle", if_exists |-> None, assistant_id |-> None,
              graph_id |-> None, config |-> EmptyDict, context |-> EmptyDict,
              code |-> 0, returned |-> None]

\* no assistant stored, no request in flight or answered
ApiInit ==
    /\ assistants = [a \in AssistantKeys |-> NoAssistant]
    /\ asstReq = [p \in Requests |-> NoRequest]
    /\ response = NoResponse

\* after startup_event: database initialised, retention task started
LifeInit == cleanup_task = TRUE /\ db_open = TRUE

\* no graph invoked yet
GraphInit == astreamCalls = [r \in RunIds |-> 0]

NoWaiter == [run |-> 0, action |-> None, pc |-> "idle", returned |-> None]

\* no cancel request is waiting
WaitInit == waiter = NoWaiter

\* ------------------------------------------------------------------------
\* Part 5: LangGraphService.get_graph and its cache
\* ------------------------------------------------------------------------

\* _graph_registry as initialize() fills it from the configuration
graph_registry == AvailableGraphs

NoGraph == 1 - 1

NoCall == [fn |-> None, graph_id |-> None, pc |-> "idle", object |-> NoGraph]

\* LangGraphService.__init__ and DatabaseManager.__init__: nothing cached,
\* no checkpointer or store entered yet
ServiceInit ==
    /\ graph_cache = [g \in graph_registry |-> NoGraph]
    /\ graphCalls = [p \in Requests |-> NoCall]
    /\ graphLoads = 0
    /\ saver_ready = FALSE
    /\ first_served = [g \in graph_registry |-> NoGraph]

\* ------------------------------------------------------------------------
\* create_run_config
\* ------------------------------------------------------------------------

\* the keys a client's config and a checkpoint are drawn with: a top-level
\* key beside `configurable`, the two keys the server fills, a key only the
\* client sets and the key only a checkpoint sets
ConfigPaths == {<<"recursion_limit">>, <<"configurable">>,
                <<"configurable", "thread_id">>,
                <<"configurable", "run_id">>,
                <<"configurable", "user_id">>}
CheckpointPaths == {<<"thread_id">>, <<"checkpoint_id">>}

\* request.config: an object whose `configurable`, if there is one, is an
\* object or (a leaf at the key itself) something else
ClientConfigs ==
    {d \in SUBSET [path : ConfigPaths, value : {"client"}] : IsDict(d)}

\* request.checkpoint: None, or an object whose entries may be null
Checkpoints ==
    {NoneObject} \cup
    {d \in SUBSET [path : CheckpointPaths, value : {"checkpoint", None}] :
        IsDict(d)}

NoRunConfig == [run_id |-> None, thread_id |-> None,
                additional_config |-> NoneObject, checkpoint |-> NoneObject,
                after |-> NoneObject, result |-> NoneObject, pc |-> "idle"]

\* bool(d) of an object or None
Truthy(d) == d # NoneObject /\ d # EmptyDict

\* d.setdefault(k, v) for a leaf value v
setdefault(d, k, v) ==
    IF k \in TopKeys(d) THEN d ELSE d \cup {[path |-> <<k>>, value |-> v]}

\* {k: v for k, v in checkpoint.items() if v is not None}
NonNoneItems(checkpoint) == {e \in checkpoint : e.value # None}

\* cfg["configurable"] once the server's keys and the checkpoint are merged
\* into it; cfg["configurable"] is an object here
Configurable(cfg, run_id, thread_id, checkpoint) ==
    LET with_ids == setdefault(setdefault(SubObject(cfg, "configurable"),
                                          "thread_id", thread_id),
                               "run_id", run_id)
    IN  IF Truthy(checkpoint)
        THEN dict_update(with_ids, NonNoneItems(checkpoint))
        ELSE with_ids

\* cfg["configurable"] holds something that has no setdefault
ConfigurableIsNoObject(cfg) == \E e \in cfg : e.path = <<"configurable">>

\* create_run_config without the deepcopy: cfg is the caller's object
create_run_config_InPlace ==
    /\ runConfig.pc = "call"
    /\ LET c == runConfig
           cfg == IF Truthy(c.additional_config) THEN c.additional_config
                  ELSE EmptyDict
       IN  IF ConfigurableIsNoObject(cfg)
           THEN runConfig' = [c EXCEPT !.pc = "raised"]
           ELSE LET result == SetItem(cfg, "configurable",
                                      Configurable(cfg, c.run_id, c.thread_id,
                                                   c.checkpoint))
                IN  runConfig' = [c EXCEPT
                        !.pc = "returned",
                        !.result = result,
                        !.after = IF Truthy(c.additional_config) THEN result
                                  ELSE c.additional_config]
    /\ UNCHANGED <<runVars, cronVars, pureVars, apiVars, lifeVars,
                   astreamCalls, waiter, serviceVars, retryCall>>

\* create_run_config(run_id, thread_id, additional_config, checkpoint): cfg
\* is a deep copy of the caller's object, so the caller's object is what it
\* was; cfg["configurable"].setdefault raises AttributeError when the
\* client's `configurable` is no object
create_run_config ==
    /\ runConfig.pc = "call"
    /\ LET c == runConfig
           cfg == IF Truthy(c.additional_config) THEN c.additional_config
                  ELSE EmptyDict
       IN  IF ConfigurableIsNoObject(cfg)
           THEN runConfig' = [c EXCEPT !.pc = "raised"]
           ELSE runConfig' = [c EXCEPT
                    !.pc = "returned",
                    !.result = SetItem(cfg, "configurable",
                                       Configurable(cfg, c.run_id,
                                                    c.thread_id,
                                                    c.checkpoint)),
                    !.after = c.additional_config]
    /\ UNCHANGED <<runVars, cronVars, pureVars, apiVars, lifeVars,
                   astreamCalls, waiter, serviceVars, retryCall>>

\* ------------------------------------------------------------------------
\* retry
\* ------------------------------------------------------------------------

\* what fn may raise: subclasses of Exception, which the loop catches, and
\* one that is none (asyncio.CancelledError), which passes through it
Exceptions == {"ConnectionError", "TimeoutError"}
BaseExceptions == {"CancelledError"}

NoRetry == [max_attempts |-> 0, delay_seconds |-> 0, attempt |-> 0,
            pc |-> "idle", log |-> <<>>, last_error |-> None,
            outcome |-> None]

\* what retry leaves alone
outsideRetry == <<runVars, cronVars, pureVars, apiVars, lifeVars,
                  astreamCalls, waiter, serviceVars, runConfig>>

\* fn is called: `await fn()` of the current attempt
CallFn(c) == [c EXCEPT !.pc = "fn", !.log = Append(c.log, "call")]

\* retry(fn, max_attempts, delay_seconds) up to its first suspension: the
\* check of max_attempts, then attempt 1 calls fn
Retry_Begin ==
    /\ UNCHANGED outsideRetry
    /\ retryCall.pc = "call"
    /\ retryCall' =
           IF retryCall.max_attempts <= 0
           THEN [retryCall EXCEPT !.pc = "raised", !.outcome = "ValueError"]
           ELSE CallFn([retryCall EXCEPT !.attempt = 1])

\* fn returns: `return await fn()`
Retry_FnReturns ==
    /\ UNCHANGED outsideRetry
    /\ retryCall.pc = "fn"
    /\ retryCall' = [retryCall EXCEPT !.pc = "returned",
                                      !.outcome = "result",
                                      !.log = Append(@, "ok")]

\* the except clause as it leaves the loop one attempt early
Retry_FnRaises_OneShort(error) ==
    /\ UNCHANGED outsideRetry
    /\ retryCall.pc = "fn"
    /\ retryCall' =
           IF error \in BaseExceptions
           THEN [retryCall EXCEPT !.pc = "raised", !.outcome = error,
                                  !.log = Append(@, error)]
           ELSE IF retryCall.attempt >= retryCall.max_attempts - 1
           THEN [retryCall EXCEPT !.pc = "raised", !.last_error = error,
                                  !.outcome = error,
                                  !.log = Append(@, error)]
           ELSE [retryCall EXCEPT !.pc = "sleep", !.last_error = error,
                                  !.log = Append(@, error)]

\* fn raises: an Exception is kept as last_error, and after the last
\* attempt the loop is left and last_error raised, otherwise
\* asyncio.sleep(delay_seconds) is awaited; anything else propagates
Retry_FnRaises(error) ==
    /\ UNCHANGED outsideRetry
    /\ retryCall.pc = "fn"
    /\ retryCall' =
           IF error \in BaseExceptions
           THEN [retryCall EXCEPT !.pc = "raised", !.outcome = error,
                                  !.log = Append(@, error)]
           ELSE IF retryCall.attempt = retryCall.max_attempts
           THEN [retryCall EXCEPT !.pc = "raised", !.last_error = error,
                                  !.outcome = error,
                                  !.log = Append(@, error)]
           ELSE [retryCall EXCEPT !.pc = "sleep", !.last_error = error,
                                  !.log = Append(@, error)]

\* the sleep is over: the next attempt calls fn
Retry_Wake ==
    /\ UNCHANGED outsideRetry
    /\ retryCall.pc = "sleep"
    /\ retryCall' = CallFn([retryCall EXCEPT !.attempt = @ + 1,
                                             !.log = Append(@, "sleep")])

retry ==
    \/ Retry_Begin
    \/ Retry_FnReturns
    \/ \E error \in Exceptions \cup BaseExceptions : Retry_FnRaises(error)
    \/ Retry_Wake

UtilInit == ServiceInit /\ runConfig = NoRunConfig /\ retryCall = NoRetry

\* history: compiled graph o was returned by a successful get_graph(g)
Serve(g, o) ==
    first_served' = IF first_served[g] = NoGraph
                    THEN [first_served EXCEPT ![g] = o]
                    ELSE first_served

\* the caller's call ends with `raise ValueError(...)`
Raises(p, fn, g) ==
    graphCalls' = [graphCalls EXCEPT ![p] =
        [fn |-> fn, graph_id |-> g, pc |-> "raised", object |-> NoGraph]]

\* the caller's call ends with `return o`
Returns(p, fn, g, o) ==
    graphCalls' = [graphCalls EXCEPT ![p] =
        [fn |-> fn, graph_id |-> g, pc |-> "returned", object |-> o]]

\* get_graph as every call goes through the cache, the reading
\* `if not force_reload and graph_id in self._graph_cache` left out
get_graph_call_AlwaysLoad(p, g, force_reload, file_exists) ==
    /\ UNCHANGED outsideService
    /\ graphCalls[p].pc \in {"idle", "returned", "raised"}
    /\ IF g \notin graph_registry
       THEN /\ Raises(p, "get_graph", g)
            /\ UNCHANGED <<graph_cache, graphLoads, saver_ready,
                           first_served>>
       ELSE IF ~file_exists
       THEN /\ Raises(p, "get_graph", g)
            /\ UNCHANGED <<graph_cache, graphLoads, saver_ready,
                           first_served>>
       ELSE /\ graphLoads < MaxLoads
            /\ graphLoads' = graphLoads + 1
            /\ IF saver_ready
               THEN /\ graph_cache' = [graph_cache EXCEPT
                                           ![g] = graphLoads + 1]
                    /\ Returns(p, "get_graph", g, graphLoads + 1)
                    /\ Serve(g, graphLoads + 1)
                    /\ UNCHANGED saver_ready
               ELSE /\ graphCalls' = [graphCalls EXCEPT ![p] =
                        [fn |-> "get_graph", graph_id |-> g,
                         pc |-> "get_checkpointer",
                         object |-> graphLoads + 1]]
                    /\ UNCHANGED <<graph_cache, saver_ready, first_served>>

\* get_graph(graph_id, force_reload) from its call to its first
\* suspension: the registry check, the cache check, the load of the graph
\* file (file_exists: the file and its export are there). The awaits of
\* get_checkpointer and get_store suspend only while db_manager has not
\* entered them yet; once it has, the call runs to its return in one step.
get_graph_call(p, g, force_reload, file_exists) ==
    /\ UNCHANGED outsideService
    /\ graphCalls[p].pc \in {"idle", "returned", "raised"}
    /\ IF g \notin graph_registry
       THEN /\ Raises(p, "get_graph", g)
            /\ UNCHANGED <<graph_cache, graphLoads, saver_ready,
                           first_served>>
       ELSE IF ~force_reload /\ graph_cache[g] # NoGraph
       THEN /\ Returns(p, "get_graph", g, graph_cache[g])
            /\ UNCHANGED <<graph_cache, graphLoads, saver_ready,
                           first_served>>
       ELSE IF ~file_exists
       THEN /\ Raises(p, "get_graph", g)
            /\ UNCHANGED <<graph_cache, graphLoads, saver_ready,
                           first_served>>
       ELSE /\ graphLoads < MaxLoads
            /\ graphLoads' = graphLoads + 1
            /\ IF saver_ready
               THEN /\ graph_cache' = [graph_cache EXCEPT
                                           ![g] = graphLoads + 1]
                    /\ Returns(p, "get_graph", g, graphLoads + 1)
                    /\ Serve(g, graphLoads + 1)
                    /\ UNCHANGED saver_ready
               ELSE /\ graphCalls' = [graphCalls EXCEPT ![p] =
                        [fn |-> "get_graph", graph_id |-> g,
                         pc |-> "get_checkpointer",
                         object |-> graphLoads + 1]]
                    /\ UNCHANGED <<graph_cache, saver_ready, first_served>>

\* the rest of get_graph once the checkpointer and the store are entered:
\* compile (or copy), `self._graph_cache[graph_id] = compiled_graph`, return
get_graph_finish(p) ==
    /\ UNCHANGED outsideService
    /\ graphCalls[p].pc = "get_checkpointer"
    /\ saver_ready' = TRUE
    /\ graph_cache' = [graph_cache EXCEPT
                           ![graphCalls[p].graph_id] = graphCalls[p].object]
    /\ Returns(p, "get_graph", graphCalls[p].graph_id, graphCalls[p].object)
    /\ Serve(graphCalls[p].graph_id, graphCalls[p].object)
    /\ UNCHANGED graphLoads

get_graph ==
    \/ \E p \in Requests, g \in GraphIds, force_reload \in BOOLEAN,
          file_exists \in BOOLEAN :
           get_graph_call(p, g, force_reload, file_exists)
    \/ \E p \in Requests : get_graph_finish(p)

\* get_graph_raw(graph_id): registry check, load, return; it has no
\* suspension point
get_graph_raw_call(p, g, file_exists) ==
    /\ UNCHANGED outsideService
    /\ graphCalls[p].pc \in {"idle", "returned", "raised"}
    /\ IF g \notin graph_registry \/ ~file_exists
       THEN /\ Raises(p, "get_graph_raw", g)
            /\ UNCHANGED graphLoads
       ELSE /\ graphLoads < MaxLoads
            /\ graphLoads' = graphLoads + 1
            /\ Returns(p, "get_graph_raw", g, graphLoads + 1)
    /\ UNCHANGED <<graph_cache, saver_ready, first_served>>

get_graph_raw ==
    \E p \in Requests, g \in GraphIds, file_exists \in BOOLEAN :
        get_graph_raw_call(p, g, file_exists)

\* invalidate_cache(graph_id): pop(graph_id, None) for a given id, clear()
\* for None
invalidate_cache_of(graph_id) ==
    /\ UNCHANGED outsideService
    /\ graph_cache' = [g \in graph_registry |->
                          IF graph_id = None \/ g = graph_id THEN NoGraph
                          ELSE graph_cache[g]]
    /\ first_served' = [g \in graph_registry |->
                          IF graph_id = None \/ g = graph_id THEN NoGraph
                          ELSE first_served[g]]
    /\ UNCHANGED <<graphCalls, graphLoads, saver_ready>>

invalidate_cache == \E graph_id \in GraphIds \cup {None} :
                        invalidate_cache_of(graph_id)

\* the callers of the graph service and the hot reload
ServiceNext ==
    \/ get_graph
    \/ get_graph_raw
    \/ invalidate_cache

Init ==
    /\ RunInit /\ CronInit /\ PureInit /\ ApiInit /\ LifeInit /\ GraphInit
    /\ WaitInit /\ UtilInit

CronNext ==
    \/ ClockTick
    \/ create_cron
    \/ update_cron
    \/ check_and_schedule_begin
    \/ check_and_schedule_commit

CronSpec == Init /\ [][CronNext]_vars

Next ==
    \/ create_chat
    \/ create_run
    \/ create_and_stream_run
    \/ cancel_run_endpoint
    \/ update_run
    \/ shutdown_event
    \/ \E r \in RunIds : ExecNormal(r)
    \/ \E r \in RunIds : ExecError(r)
    \/ \E r \in RunIds : ExecCancel(r)

Spec == Init /\ [][Next]_vars

\* the same system when no client asks for a stop and the process stays up;
\* the event loop runs every task that is ready, hence weak fairness per task
QuietNext ==
    \/ create_chat
    \/ create_run
    \/ create_and_stream_run
    \/ \E r \in RunIds : ExecNormal(r)
    \/ \E r \in RunIds : ExecError(r)

QuietFairSpec ==
    /\ Init
    /\ [][QuietNext]_vars
    /\ \A r \in RunRows : WF_vars(ExecNormal(r) \/ ExecError(r))

\* runs, their tasks and hard cancellation by a client while the process is up
hard_cancel == \E r \in RunIds : RequestStop(r, "cancel")

TaskNext ==
    \/ create_chat
    \/ create_run
    \/ hard_cancel
    \/ \E r \in RunIds : ExecNormal(r)
    \/ \E r \in RunIds : ExecError(r)
    \/ \E r \in RunIds : ExecCancel(r)

TaskSpec == Init /\ [][TaskNext]_vars

\* streamed runs and their consumers: the stream endpoint, consumers attaching
\* at any moment of the run, and the executor without stop requests
subscribe == \E s \in SubscriberIds, r \in RunIds : stream_run_execution(s, r)

StreamNext ==
    \/ create_chat
    \/ create_and_stream_run
    \/ subscribe
    \/ \E r \in RunIds : ExecNormal(r)
    \/ \E r \in RunIds : ExecError(r)

StreamSpec == Init /\ [][StreamNext]_vars

\* the trigger loop over a cron table the process finds at start-up: any
\* rows, filled from the first id on
StoredCrons ==
    {f \in [CronIds -> {NoCron} \cup [schedule : CronExprs, enabled : BOOLEAN,
                                      required_fields : {EmptyJson}]] :
        \A c \in CronIds :
            f[c] # NoCron => \A q \in CronIds : q < c => f[q] # NoCron}

TriggerInit ==
    /\ RunInit
    /\ clock = 0
    /\ crons \in StoredCrons
    /\ cronRuns = <<>>
    /\ trigPc = "idle"
    /\ trigNow = 0
    /\ scenario = "start"
    /\ dispPc = "idle"
    /\ dispQueue = <<>>
    /\ dispOutput = NoOutput
    /\ invocations = [i \in 1..MaxCronRuns |-> 0]
    /\ PureInit
    /\ ApiInit
    /\ LifeInit
    /\ GraphInit
    /\ WaitInit /\ UtilInit

TriggerNext ==
    \/ ClockTick
    \/ check_and_schedule_begin
    \/ check_and_schedule_commit

TriggerSpec == TriggerInit /\ [][TriggerNext]_vars

\* the trigger loop at the pace of its interval job: the scheduler starts a
\* tick once per minute, the first one a minute after 12:00
interval_tick ==
    /\ TruncateToMinute(clock) > trigNow
    /\ check_and_schedule_begin

IntervalNext ==
    \/ ClockTick
    \/ create_cron
    \/ update_cron
    \/ interval_tick
    \/ check_and_schedule_commit

IntervalSpec == Init /\ [][IntervalNext]_vars

\* ------------------------------------------------------------------------
\* Part 3: single operations applied to stored rows
\* ------------------------------------------------------------------------

\* the arguments update_run_status is called with when a run is finished
FinishArgs ==
    [run_id : {CHOOSE r \in RunRows : \A q \in RunRows : r <= q},
     status : {"completed", "failed", "cancelled"},
     output : {None, EmptyJson},
     error : {None} \cup GraphErrors]

\* a stored run on a stored thread, no task in flight, and a finishing call
\* about to be made for it
FinishInit ==
    /\ \E a \in FinishArgs, st \in {"pending", "running"} \cup TerminalStatuses,
          ts \in {"busy", "idle"}, t \in ThreadIds :
           /\ finish = [args |-> a, calls |-> 0, first |-> NoRun]
           /\ merged = NoMerge
           /\ runs = [r \in RunRows |->
                         IF r = a.run_id
                         THEN [status |-> st, thread_id |-> t, output |-> None,
                               error_message |-> None, updated_at |-> 0,
                               config |-> EmptyDict, context |-> EmptyDict]
                         ELSE NoRun]
           /\ threadStatus = [q \in ThreadIds |->
                                 IF q = t THEN ts ELSE "absent"]
    /\ active_runs = {}
    /\ taskPc = [r \in RunIds |-> "none"]
    /\ mustCancel = [r \in RunIds |-> FALSE]
    /\ taskOutcome = [r \in RunIds |-> None]
    /\ eventCounter = [r \in RunIds |-> 0]
    /\ finalOutput = [r \in RunIds |-> NoPayload]
    /\ brokerEvents = [r \in RunIds |-> <<>>]
    /\ storedEvents = [r \in RunIds |-> <<>>]
    /\ brokerSignal = [r \in RunIds |-> <<>>]
    /\ cleanupCount = [r \in RunIds |-> 0]
    /\ rawEvent = [r \in RunIds |-> None]
    /\ exc = [r \in RunIds |-> None]
    /\ shutdown = FALSE
    /\ cancelAtRunning = [r \in RunIds |-> FALSE]
    /\ statusWrites = [r \in RunIds |-> <<>>]
    /\ subscribers = [s \in SubscriberIds |-> NoSubscriber]
    /\ CronInit
    /\ ApiInit
    /\ LifeInit
    /\ GraphInit
    /\ WaitInit /\ UtilInit

\* update_run_status(run_id, status, output, error) followed by
\* set_thread_status(session, thread_id, "idle"), as on every exit of
\* execute_run_async
finish_run ==
    LET a == finish.args IN
    /\ finish.calls < 2
    /\ runs' = update_run_status(runs, a.run_id, a.status, a.output, a.error)
    /\ threadStatus' = set_thread_status(threadStatus,
                                         runs[a.run_id].thread_id, "idle")
    /\ finish' = [finish EXCEPT !.calls = @ + 1,
                                !.first = IF finish.calls = 0
                                          THEN runs'[a.run_id] ELSE @]
    /\ UNCHANGED <<active_runs, taskPc, mustCancel, taskOutcome, eventCounter,
                   finalOutput, brokerEvents, storedEvents, brokerSignal,
                   cleanupCount, rawEvent, exc, shutdown, cancelAtRunning,
                   statusWrites, subscribers>>
    /\ UNCHANGED cronVars
    /\ UNCHANGED <<merged, apiVars, lifeVars, astreamCalls, waiter, utilVars>>

FinishNext ==
    \/ ClockTick
    \/ finish_run

FinishSpec == FinishInit /\ [][FinishNext]_vars

\* the operands of a call of _merge_jsonb: the assistant's settings and the
\* request's, each an object or None
MergeOperands == Dicts \cup {NoneObject}

\* a call _merge_jsonb(assistant settings, request settings) about to be made
MergeInit ==
    /\ RunInit
    /\ CronInit
    /\ ApiInit
    /\ LifeInit
    /\ GraphInit
    /\ WaitInit /\ UtilInit
    /\ finish = NoFinish
    /\ \E a, b \in MergeOperands :
           merged = [objects |-> <<a, b>>, result |-> NoneObject,
                     after |-> <<a, b>>, done |-> FALSE]

\* config = _merge_jsonb(assistant.config, config): the result is built in a
\* new dict from deep copies, the operands are only read
merge_settings ==
    /\ ~merged.done
    /\ merged' = [merged EXCEPT !.result = merge_jsonb(merged.objects),
                                !.done = TRUE]
    /\ UNCHANGED <<runVars, cronVars, finish, apiVars, lifeVars, astreamCalls, waiter, utilVars>>

MergeNext == merge_settings

MergeSpec == MergeInit /\ [][MergeNext]_vars

\* ------------------------------------------------------------------------
\* Requests against stored assistants
\* ------------------------------------------------------------------------

Leaf(p, v) == [path |-> p, value |-> v]

\* the config and the context a run request may carry (RunCreate: both
\* default to {})
RequestConfigs ==
    {EmptyDict, {Leaf(<<"configurable", "user_id">>, "v2")}}

RequestContexts == {EmptyDict, {Leaf(<<"user_id">>, "v2")}}

RunCreates ==
    [assistant_id : AssistantIds \cup AvailableGraphs,
     config : RequestConfigs,
     context : RequestContexts]

\* the settings an assistant row may hold; create_assistant keeps config
\* ["configurable"] and context equal
AssistantSettings ==
    {EmptyDict,
     {Leaf(<<"configurable", "user_id">>, "v1"),
      Leaf(<<"configurable", "model">>, "v1")}}

AssistantRow(g, c) ==
    [graph_id |-> g, config |-> c, context |-> SubObject(c, "configurable")]

\* the assistant tables the requests are checked against: one assistant of
\* a registered graph with settings of its own, possibly one of a graph that
\* left the registry, possibly the default assistant of the registered graph
StoredAssistants ==
    {f \in [AssistantKeys -> {NoAssistant}
                \cup {AssistantRow(g, c) : g \in GraphIds,
                                           c \in AssistantSettings}] :
        /\ f["a1"] # NoAssistant /\ f["a1"].graph_id \in AvailableGraphs
        /\ f["a1"].config # EmptyDict
        /\ f["a2"] # NoAssistant
               => f["a2"].graph_id \notin AvailableGraphs
                      /\ f["a2"].config = EmptyDict
        /\ \A g \in AvailableGraphs :
               f[Uuid5(g)] # NoAssistant
                   => f[Uuid5(g)].graph_id = g /\ f[Uuid5(g)].config = EmptyDict
        /\ \A p \in Requests : f[Uuid4(p)] = NoAssistant}

RequestInit ==
    /\ RunInit
    /\ CronInit
    /\ PureInit
    /\ assistants \in StoredAssistants
    /\ asstReq = [p \in Requests |-> NoRequest]
    /\ response = NoResponse
    /\ LifeInit
    /\ GraphInit
    /\ WaitInit /\ UtilInit

\* update_thread_metadata without its look-up of the thread
update_thread_metadata_NoCheck(ts, t) == TRUE

\* update_thread_metadata: FALSE when it raises 404 because the thread row is
\* not found; the metadata it rewrites is not modelled
update_thread_metadata(ts, t) == ts[t] # "absent"

\* config.get("configurable") and context
BothSupplied(request) ==
    /\ SubObject(request.config, "configurable") # EmptyDict
    /\ request.context # EmptyDict

\* the config create_run goes on with: config["configurable"] = context.copy()
\* when a context is given
RequestConfig(request) ==
    IF request.context # EmptyDict
    THEN SetItem(request.config, "configurable", request.context)
    ELSE request.config

\* the context create_run goes on with: the one given, else a copy of
\* config["configurable"]
RequestContext(request) ==
    IF request.context # EmptyDict THEN request.context
    ELSE SubObject(request.config, "configurable")

\* the HTTP status code of each answer: the detail of the HTTPException
\* raised, None when the handler returns
StatusCode(detail) ==
    IF detail = None THEN 200
    ELSE IF detail = "configurable_and_context" THEN 400
    ELSE 404

\* create_run's checks with the graph of the assistant not looked up in the
\* registry
create_run_raises_GraphUnchecked(t, request) ==
    LET assistant == assistants[resolve_assistant_id(request.assistant_id,
                                                     AvailableGraphs)]
    IN  IF BothSupplied(request) THEN "configurable_and_context"
        ELSE IF assistant = NoAssistant THEN "assistant_not_found"
        ELSE IF ~update_thread_metadata(threadStatus, t)
             THEN "thread_not_found"
        ELSE None

\* the HTTPException create_run raises, None when it raises none: its checks
\* in the order of the code
create_run_raises(t, request) ==
    LET assistant == assistants[resolve_assistant_id(request.assistant_id,
                                                     AvailableGraphs)]
    IN  IF BothSupplied(request) THEN "configurable_and_context"
        ELSE IF assistant = NoAssistant THEN "assistant_not_found"
        ELSE IF assistant.graph_id \notin AvailableGraphs
             THEN "graph_not_found"
        ELSE IF ~update_thread_metadata(threadStatus, t)
             THEN "thread_not_found"
        ELSE None

\* POST /chat/{thread_id}/runs with any request: the thread id need not be
\* stored, the assistant need not exist.  set_thread_status has committed
\* when update_thread_metadata raises.
create_run_with(t, request) ==
    LET assistant == assistants[resolve_assistant_id(request.assistant_id,
                                                     AvailableGraphs)]
        detail == create_run_raises(t, request)
    IN  /\ ~shutdown
        /\ response' = [endpoint |-> "create_run", detail |-> detail,
                        code |-> StatusCode(detail)]
        /\ IF detail = None
           THEN /\ RunCount < MaxRuns
                /\ PersistAndLaunch(t, "pending",
                     merge_jsonb(<<assistant.config, RequestConfig(request)>>),
                     merge_jsonb(<<assistant.context, RequestContext(request)>>))
           ELSE IF detail = "thread_not_found"
           THEN /\ threadStatus' = set_thread_status(threadStatus, t, "busy")
                /\ UNCHANGED <<runs, active_runs, taskPc, mustCancel,
                               taskOutcome, eventCounter, finalOutput,
                               brokerEvents, storedEvents, brokerSignal,
                               cleanupCount, rawEvent, exc, shutdown,
                               cancelAtRunning, statusWrites, subscribers>>
           ELSE UNCHANGED runVars
        /\ UNCHANGED <<cronVars, pureVars, assistantVars, lifeVars, astreamCalls, waiter, utilVars>>

create_run_request ==
    \E t \in ThreadIds, request \in RunCreates : create_run_with(t, request)

RequestNext ==
    \/ create_chat
    \/ create_run_request

RequestSpec == RequestInit /\ [][RequestNext]_vars

\* ------------------------------------------------------------------------
\* The cron endpoints with any cron id
\* ------------------------------------------------------------------------

\* a row delete_cron has removed; its id is not given out again
DeletedCron ==
    [schedule |-> "deleted", enabled |-> FALSE, required_fields |-> EmptyJson]

\* result.scalars().first() is a row
CronFound(c) == crons[c] \notin {NoCron, DeletedCron}

\* the status code a handler answers with when it raises
\* HTTPException(404, "Cron job not found") inside its try block: update_cron
\* and delete_cron re-raise it (except HTTPException: raise), get_cron and
\* run_cron_now catch it with `except Exception` and raise HTTPException(500)
NotFoundCode(endpoint) ==
    IF endpoint \in {"update_cron", "delete_cron"} THEN 404 ELSE 500

CronResponse(endpoint, c) ==
    IF CronFound(c)
    THEN [endpoint |-> endpoint, detail |-> None, code |-> 200]
    ELSE [endpoint |-> endpoint, detail |-> "cron_not_found",
          code |-> NotFoundCode(endpoint)]

\* GET /cron/{cron_id}
get_cron_with(c) ==
    /\ response' = CronResponse("get_cron", c)
    /\ UNCHANGED <<runVars, cronVars, pureVars, assistantVars, lifeVars, astreamCalls, waiter, utilVars>>

get_cron == \E c \in CronIds : get_cron_with(c)

\* POST /cron/{cron_id}/run with any cron id
run_cron_now_with(c) ==
    /\ response' = CronResponse("run_cron_now", c)
    /\ IF CronFound(c)
       THEN /\ Len(cronRuns) < MaxCronRuns
            /\ cronRuns' = Append(cronRuns,
                               [cron_id |-> c, status |-> "scheduled",
                                by |-> "manual", minute |-> MinuteOf(clock),
                                output |-> None, started_at |-> NoTime,
                                completed_at |-> NoTime])
       ELSE UNCHANGED cronRuns
    /\ UNCHANGED <<clock, crons, trigPc, trigNow, scenario>>
    /\ UNCHANGED dispVars
    /\ UNCHANGED <<runVars, pureVars, assistantVars, lifeVars, astreamCalls, waiter, utilVars>>

run_cron_now_request == \E c \in CronIds : run_cron_now_with(c)

\* POST /cron/{cron_id} with any cron id and the enabled flag
update_cron_with(c, en) ==
    /\ response' = CronResponse("update_cron", c)
    /\ crons' = IF CronFound(c) THEN [crons EXCEPT ![c].enabled = en]
                ELSE crons
    /\ UNCHANGED <<clock, cronRuns, trigPc, trigNow, scenario>>
    /\ UNCHANGED dispVars
    /\ UNCHANGED <<runVars, pureVars, assistantVars, lifeVars, astreamCalls, waiter, utilVars>>

update_cron_request ==
    \E c \in CronIds, en \in BOOLEAN : update_cron_with(c, en)

\* DELETE /cron/{cron_id}
delete_cron_with(c) ==
    /\ response' = CronResponse("delete_cron", c)
    /\ crons' = IF CronFound(c) THEN [crons EXCEPT ![c] = DeletedCron]
                ELSE crons
    /\ UNCHANGED <<clock, cronRuns, trigPc, trigNow, scenario>>
    /\ UNCHANGED dispVars
    /\ UNCHANGED <<runVars, pureVars, assistantVars, lifeVars, astreamCalls, waiter, utilVars>>

delete_cron == \E c \in CronIds : delete_cron_with(c)

CronApiNext ==
    \/ create_cron
    \/ get_cron
    \/ run_cron_now_request
    \/ update_cron_request
    \/ delete_cron

CronApiSpec == Init /\ [][CronApiNext]_vars

\* ------------------------------------------------------------------------
\* create_assistant: requests p in flight together.  asstReq[p].pc names the
\* await the handler is suspended at.
\* ------------------------------------------------------------------------

\* AssistantCreate: an id of the client's or none, a graph, settings and the
\* if_exists policy
AssistantCreates ==
    [assistant_id : {None, "a1"},
     graph_id : GraphIds,
     config : AssistantSettings,
     context : RequestContexts,
     if_exists : {"do_nothing", "error"}]

\* the rows select ... where (graph_id == graph_id and config == config) or
\* assistant_id == assistant_id matches
Existing(id, graph_id, config) ==
    {a \in AssistantKeys :
        /\ assistants[a] # NoAssistant
        /\ \/ assistants[a].graph_id = graph_id /\ assistants[a].config = config
           \/ a = id}

\* from the start of the handler to `await session.scalar(existing_stmt)`:
\* the graph is looked up in the registry and loaded, config and context are
\* checked and made equal, the id is fixed
CreateAssistant_Begin(p, request) ==
    LET configurable == SubObject(request.config, "configurable")
        rejected == \/ request.graph_id \notin AvailableGraphs
                    \/ configurable # EmptyDict /\ request.context # EmptyDict
    IN  /\ asstReq[p].pc = "idle"
        /\ asstReq' = [asstReq EXCEPT ![p] =
               IF rejected
               THEN [NoRequest EXCEPT !.pc = "done", !.code = 400]
               ELSE [pc |-> "select",
                     if_exists |-> request.if_exists,
                     assistant_id |-> IF request.assistant_id # None
                                      THEN request.assistant_id ELSE Uuid4(p),
                     graph_id |-> request.graph_id,
                     config |-> IF configurable = EmptyDict
                                   /\ request.context # EmptyDict
                                THEN SetItem(request.config, "configurable",
                                             request.context)
                                ELSE request.config,
                     context |-> IF configurable # EmptyDict THEN configurable
                                 ELSE request.context,
                     code |-> 0, returned |-> None]]
        /\ UNCHANGED <<runVars, cronVars, pureVars, assistants, response, lifeVars, astreamCalls, waiter, utilVars>>

\* the SELECT is evaluated: an existing row is returned (do_nothing) or
\* answered with 409; without one the handler goes on to
\* session.add(assistant_orm); await session.commit()
CreateAssistant_Select(p) ==
    LET q == asstReq[p]
        existing == Existing(q.assistant_id, q.graph_id, q.config)
    IN  /\ q.pc = "select"
        /\ IF existing # {}
           THEN IF q.if_exists = "do_nothing"
                THEN \E a \in existing :
                        asstReq' = [asstReq EXCEPT ![p].pc = "done",
                                                   ![p].code = 200,
                                                   ![p].returned = a]
                ELSE asstReq' = [asstReq EXCEPT ![p].pc = "done",
                                                ![p].code = 409]
           ELSE asstReq' = [asstReq EXCEPT ![p].pc = "commit"]
        /\ UNCHANGED <<runVars, cronVars, pureVars, assistants, response, lifeVars, astreamCalls, waiter, utilVars>>

\* the INSERT is committed; the primary key assistant_id is the table's only
\* uniqueness constraint, its violation leaves the handler as an
\* IntegrityError (500)
CreateAssistant_Commit(p) ==
    LET q == asstReq[p] IN
    /\ q.pc = "commit"
    /\ IF assistants[q.assistant_id] # NoAssistant
       THEN /\ asstReq' = [asstReq EXCEPT ![p].pc = "done", ![p].code = 500]
            /\ UNCHANGED assistants
       ELSE /\ assistants' = [assistants EXCEPT ![q.assistant_id] =
                                  [graph_id |-> q.graph_id,
                                   config |-> q.config,
                                   context |-> q.context]]
            /\ asstReq' = [asstReq EXCEPT ![p].pc = "done", ![p].code = 200,
                                          ![p].returned = q.assistant_id]
    /\ UNCHANGED <<runVars, cronVars, pureVars, response, lifeVars, astreamCalls, waiter, utilVars>>

create_assistant(p) ==
    \/ \E request \in AssistantCreates : CreateAssistant_Begin(p, request)
    \/ CreateAssistant_Select(p)
    \/ CreateAssistant_Commit(p)

AssistantNext == \E p \in Requests : create_assistant(p)

AssistantSpec == Init /\ [][AssistantNext]_vars

\* ------------------------------------------------------------------------
\* shutdown_event after its loop over active_runs (the action shutdown_event
\* is that loop, which has no await): the two awaits that follow
\* ------------------------------------------------------------------------

\* await event_store.stop_cleanup_task()
Shutdown_StopCleanup ==
    /\ shutdown
    /\ cleanup_task
    /\ cleanup_task' = FALSE
    /\ UNCHANGED <<runVars, cronVars, pureVars, apiVars, db_open, astreamCalls, waiter, utilVars>>

\* db_manager.close() reached without waiting for stop_cleanup_task
Shutdown_CloseDb_Early ==
    /\ shutdown
    /\ db_open
    /\ db_open' = FALSE
    /\ UNCHANGED <<runVars, cronVars, pureVars, apiVars, cleanup_task, astreamCalls, waiter, utilVars>>

\* await db_manager.close(), once stop_cleanup_task has returned
Shutdown_CloseDb ==
    /\ shutdown
    /\ ~cleanup_task
    /\ db_open
    /\ db_open' = FALSE
    /\ UNCHANGED <<runVars, cronVars, pureVars, apiVars, cleanup_task, astreamCalls, waiter, utilVars>>

\* runs and their tasks up to and through the shutdown of the process
ShutdownNext ==
    \/ create_chat
    \/ create_run
    \/ shutdown_event
    \/ Shutdown_StopCleanup
    \/ Shutdown_CloseDb
    \/ \E r \in RunIds : ExecNormal(r)
    \/ \E r \in RunIds : ExecError(r)
    \/ \E r \in RunIds : ExecCancel(r)

ShutdownSpec == Init /\ [][ShutdownNext]_vars

\* ------------------------------------------------------------------------
\* cancel_run_endpoint with wait=1
\* ------------------------------------------------------------------------

\* from the start of the handler to `await task`: the stop is requested and
\* the status persisted, then task = active_runs.get(run_id) is awaited if
\* there is one
CancelWait_Begin(r, action) ==
    /\ waiter.pc = "idle"
    /\ StopAndPersist(r, action)
    /\ waiter' = [run |-> r, action |-> action,
                  pc |-> IF r \in active_runs THEN "await_task" ELSE "reload",
                  returned |-> None]
    /\ UNCHANGED cronVars
    /\ UNCHANGED <<pureVars, apiVars, lifeVars, astreamCalls, utilVars>>

\* `await task` returns or raises once the task has ended; CancelledError
\* and Exception are passed over
CancelWait_TaskDone ==
    /\ waiter.pc = "await_task"
    /\ TaskDone(waiter.run)
    /\ waiter' = [waiter EXCEPT !.pc = "reload"]
    /\ UNCHANGED <<runVars, cronVars, pureVars, apiVars, lifeVars,
                   astreamCalls, utilVars>>

\* the run is read again and returned
CancelWait_Reload ==
    /\ waiter.pc = "reload"
    /\ waiter' = [waiter EXCEPT !.pc = "returned",
                                !.returned = runs[waiter.run].status]
    /\ UNCHANGED <<runVars, cronVars, pureVars, apiVars, lifeVars,
                   astreamCalls, utilVars>>

cancel_run_endpoint_wait ==
    \/ \E r \in RunIds, action \in {"cancel", "interrupt"} :
           CancelWait_Begin(r, action)
    \/ CancelWait_TaskDone
    \/ CancelWait_Reload

\* runs, their tasks and one client that stops a run and waits for it
WaitNext ==
    \/ create_chat
    \/ create_run
    \/ cancel_run_endpoint_wait
    \/ \E r \in RunIds : ExecNormal(r)
    \/ \E r \in RunIds : ExecError(r)
    \/ \E r \in RunIds : ExecCancel(r)

WaitSpec == Init /\ [][WaitNext]_vars

\* a run and one other run
PairOfRuns == 1 + 1

\* POST /chat/{thread_id}/runs while the table holds fewer than two runs
create_run_beside ==
    \E t \in ThreadIds :
        /\ RunCount < PairOfRuns
        /\ threadStatus[t] # "absent"
        /\ PersistAndLaunch(t, "pending", EmptyDict, EmptyDict)
        /\ UNCHANGED cronVars
        /\ UNCHANGED restVars

\* the executors of the runs side by side; shutdown_event is what cancels them
FrameNext ==
    \/ create_chat
    \/ create_run_beside
    \/ shutdown_event
    \/ \E r \in RunIds : ExecNormal(r)
    \/ \E r \in RunIds : ExecError(r)
    \/ \E r \in RunIds : ExecCancel(r)

\* room for the two runs
FrameInit ==
    /\ RunStart(1..PairOfRuns) /\ CronInit /\ PureInit /\ ApiInit /\ LifeInit
    /\ GraphInit /\ WaitInit /\ UtilInit

FrameSpec == FrameInit /\ [][FrameNext]_vars

\* the dispatch loop with the requests that give it work at any moment
DispatchNext ==
    \/ create_cron
    \/ create_cron_null
    \/ run_cron_now
    \/ run_scheduled_jobs

DispatchSpec == Init /\ [][DispatchNext]_vars

\* the scheduler starts run_scheduled_jobs every 30 seconds and the event loop
\* resumes it after each await
DispatchFairSpec ==
    /\ Init
    /\ [][DispatchNext]_vars
    /\ WF_vars(run_scheduled_jobs)

\* both loops of the scheduler and run_cron_now during the first instants after
\* start-up, over a stored cron table that holds one enabled schedule with a
\* valid expression
FiringCrons ==
    {f \in StoredCrons :
        \A c \in CronIds :
            IF c = ScenarioCron
            THEN f[c] # NoCron /\ f[c].enabled /\ is_valid(f[c].schedule)
            ELSE f[c] = NoCron}

FiringInit == TriggerInit /\ crons \in FiringCrons

\* time passes during the first instants after 12:00:00
first_instants_tick == clock <= At_12_00_00 /\ ClockTick

FiringNext ==
    \/ first_instants_tick
    \/ run_cron_now
    \/ check_and_schedule_begin
    \/ check_and_schedule_commit
    \/ run_scheduled_jobs

FiringSpec == FiringInit /\ [][FiringNext]_vars

\* a call create_run_config(run_id, thread_id, config or {}, checkpoint)
\* about to be made
ConfigInit ==
    /\ RunInit /\ CronInit /\ PureInit /\ ApiInit /\ LifeInit /\ GraphInit
    /\ WaitInit /\ ServiceInit /\ retryCall = NoRetry
    /\ \E d \in ClientConfigs \cup {NoneObject}, k \in Checkpoints :
           runConfig = [run_id |-> "run", thread_id |-> "thread",
                        additional_config |-> d, checkpoint |-> k,
                        after |-> d, result |-> NoneObject, pc |-> "call"]

ConfigNext == create_run_config

ConfigSpec == ConfigInit /\ [][ConfigNext]_vars

\* a call retry(fn, max_attempts, delay_seconds) about to be made
RetryInit ==
    /\ RunInit /\ CronInit /\ PureInit /\ ApiInit /\ LifeInit /\ GraphInit
    /\ WaitInit /\ ServiceInit /\ runConfig = NoRunConfig
    /\ \E n \in (0 - 1)..MaxAttempts, d \in 0..MaxDelay :
           retryCall = [NoRetry EXCEPT !.max_attempts = n,
                                       !.delay_seconds = d, !.pc = "call"]

RetryNext == retry

\* fn terminates and a sleep ends
RetryFairSpec == RetryInit /\ [][RetryNext]_vars /\ WF_vars(retry)

\* the graph service under its callers and the hot reload
ServiceSpec == Init /\ [][ServiceNext]_vars

\* ------------------------------------------------------------------------
\* Properties
\* ------------------------------------------------------------------------
IsTerminal(st) == st \in TerminalStatuses

\* the order of the Run state machine; a creation endpoint's initial status
\* counts as the first stage
StatusRank(st) ==
    IF st = "absent" THEN 0
    ELSE IF st \in {"pending", "streaming"} THEN 1
    ELSE IF st = "running" THEN 2
    ELSE 3

\* C1: a Run's status only moves forward along pending -> running -> terminal,
\* and once the status is terminal no step changes the row's status, output
\* or error_message again.
C1_TerminalRunIsImmutable ==
    [][\A r \in RunIds :
          /\ runs'[r].status # runs[r].status
                => StatusRank(runs'[r].status) > StatusRank(runs[r].status)
          /\ IsTerminal(runs[r].status) => runs'[r] = runs[r]]_vars

NonTerminal(r) == runs[r].status \in {"pending", "streaming", "running"}

RunsOn(t) == {r \in RunIds : runs[r].status # "absent" /\ runs[r].thread_id = t}

\* run r's executor has a cancellation to handle, or stands between its own
\* terminal status write and the thread release that follows it
Releasing(r) ==
    \/ mustCancel[r]
    \/ taskPc[r] \in {"idle_completed", "cancel_status", "cancel_idle",
                      "fail_idle"}

\* C2: the thread of a run is busy in the state a creation endpoint leaves,
\* and it is idle once the run's persisted status is terminal (completed,
\* failed, cancelled or interrupted, whoever wrote it), allowing the executor
\* the steps of the handler it is in and leaving aside threads on which
\* another run is still in progress.
C2_ThreadBusyThenIdle ==
    /\ [][\A r \in RunIds :
             runs[r].status = "absent" /\ runs'[r].status # "absent"
                 => threadStatus'[runs'[r].thread_id] = "busy"]_vars
    /\ [](\A r \in RunIds :
             /\ IsTerminal(runs[r].status)
             /\ ~Releasing(r)
             /\ \A q \in RunsOn(runs[r].thread_id) : ~NonTerminal(q)
             => threadStatus[runs[r].thread_id] = "idle")

\* C3: in every reachable state a thread is busy exactly when exactly one of
\* its runs is non-terminal.
C3_BusyIffOneNonTerminalRun ==
    \A t \in ThreadIds :
        threadStatus[t] # "absent"
            => (threadStatus[t] = "busy"
                <=> Cardinality({r \in RunsOn(t) : NonTerminal(r)}) = 1)

\* the firings the trigger loop created for schedule c in minute m
TriggerFirings(c, m) ==
    {i \in DOMAIN cronRuns : /\ cronRuns[i].cron_id = c
                             /\ cronRuns[i].by = "trigger"
                             /\ cronRuns[i].minute = m}

FiringsOf(c) == {i \in DOMAIN cronRuns : cronRuns[i].cron_id = c}

\* C4: however often the trigger loop is evaluated within one wall-clock
\* minute, a schedule never has two firings created by the loop for that
\* minute.
C4_OneFiringPerScheduleAndMinute ==
    \A c \in CronIds, m \in 0..MaxMinute : Cardinality(TriggerFirings(c, m)) <= 1

\* C5: for the enabled schedule "*/5 * * * *", after the evaluation at 12:00:00
\* there is exactly one firing, in status scheduled; after the further
\* evaluation at 12:00:30 there is still exactly one; after the evaluation at
\* 12:05:00 there are exactly two.
C5_EveryFiveMinutesScenario ==
    /\ scenario = "after_12_00_00"
          => /\ Cardinality(FiringsOf(ScenarioCron)) = 1
             /\ \A i \in FiringsOf(ScenarioCron) : cronRuns[i].status = "scheduled"
    /\ scenario = "after_12_00_30" => Cardinality(FiringsOf(ScenarioCron)) = 1
    /\ scenario = "after_12_05_00" => Cardinality(FiringsOf(ScenarioCron)) = 2

SignalKinds(r) == {brokerSignal[r][i].kind : i \in DOMAIN brokerSignal[r]}

\* no run other than r is in progress on r's thread
AloneOnThread(r) ==
    \A q \in RunsOn(runs[r].thread_id) : q # r => ~NonTerminal(q)

\* C6: a run that cancel_run_endpoint(action=cancel) was called for while it
\* was running has, once its task is done, status cancelled, a cancel signal
\* on the broker, an idle thread, and no entry in active_runs.
C6_CancelWhileRunning ==
    \A r \in RunIds :
        cancelAtRunning[r] /\ taskPc[r] = "done"
            => /\ runs[r].status = "cancelled"
               /\ "cancelled" \in SignalKinds(r)
               /\ r \notin active_runs
               /\ AloneOnThread(r) => threadStatus[runs[r].thread_id] = "idle"

\* C7: a run whose graph raised has, once its task is done, status failed,
\* the exception's text as error_message, an error signal on the broker
\* carrying that text, and an idle thread.
C7_GraphErrorMakesRunFailed ==
    \A r \in RunIds :
        exc[r] # None /\ taskPc[r] = "done"
            => /\ runs[r].status = "failed"
               /\ runs[r].error_message = exc[r]
               /\ \E i \in DOMAIN brokerSignal[r] :
                      brokerSignal[r][i] = [kind |-> "error", message |-> exc[r]]
               /\ AloneOnThread(r) => threadStatus[runs[r].thread_id] = "idle"

\* the status changes of a run nobody asks to stop
QuietTransitions ==
    {<<"absent", "pending">>, <<"absent", "streaming">>,
     <<"pending", "running">>, <<"streaming", "running">>,
     <<"running", "completed">>, <<"running", "failed">>}

\* run r completed: status completed, an output, task over, thread released
CompletedAndReleased(r) ==
    /\ runs[r].status = "completed"
    /\ runs[r].output # None
    /\ taskPc[r] = "done"
    /\ threadStatus[runs[r].thread_id] = "idle"

\* C8: when nobody asks for a stop, a run that create_run left pending
\* becomes running and, unless its graph raises, then completed with a
\* non-null output, its task over and its thread idle; its status takes no
\* other path, and it does not fail as long as the graph has not raised.
C8_QuietRunCompletes ==
    /\ [][\A r \in RunIds :
             runs'[r].status # runs[r].status
                 => /\ <<runs[r].status, runs'[r].status>> \in QuietTransitions
                    /\ runs'[r].status = "failed" => exc[r] # None]_vars
    /\ \A r \in RunRows :
           runs[r].status = "pending" ~> runs[r].status = "running"
    /\ \A r \in RunRows :
           (runs[r].status = "running" /\ exc[r] = None)
               ~> (exc[r] # None \/ CompletedAndReleased(r))

C8_Witness ==
    \E r \in RunIds :
        /\ CompletedAndReleased(r)
        /\ runs[r].output = EmptyJson
        /\ exc[r] = None
        /\ eventCounter[r] > 1
        /\ taskOutcome[r] = "returned"

\* C9: once a run's task has ended, the run's status is terminal (not
\* running), its thread has been released, and the broker cleanup has run.
C9_EndedTaskLeftNothingBehind ==
    \A r \in RunIds :
        taskPc[r] = "done"
            => /\ runs[r].status # "running"
               /\ IsTerminal(runs[r].status)
               /\ cleanupCount[r] >= 1
               /\ AloneOnThread(r) => threadStatus[runs[r].thread_id] = "idle"

InBody(pc) == pc \notin {"none", "created", "done"}

Publishes(r) ==
    \/ brokerEvents'[r] # brokerEvents[r]
    \/ storedEvents'[r] # storedEvents[r]
    \/ brokerSignal'[r] # brokerSignal[r]

\* the step is execute_run_async committing status st for run r
Writes(r, st) == statusWrites'[r] = Append(statusWrites[r], st)

EndPublished(evs) == evs # <<>> /\ evs[Len(evs)].kind = "end"

\* the terminal event of run r has been published: the end marker, or the
\* synthetic terminal event of signal_run_cancelled / signal_run_error
TerminalEventPublished(r) ==
    EndPublished(brokerEvents[r]) \/ brokerSignal[r] # <<>>

\* C11 (as stated): status running is committed before the first event of
\* the run is published, and on every terminal path (completed, cancelled,
\* failed) the terminal status write comes after the publication of the
\* run's terminal event.
C11_StatusWritesBracketEvents ==
    [][\A r \in RunIds :
          /\ Publishes(r) => "running" \in {statusWrites[r][i] :
                                               i \in DOMAIN statusWrites[r]}
          /\ \A st \in {"completed", "cancelled", "failed"} :
                 Writes(r, st) => TerminalEventPublished(r)]_vars

\* C11 (amended): execute_run_async commits running before it offers or
\* stores any event of the stream; it commits completed after the end event
\* has been offered and stored; on the cancelled and failed paths it commits
\* the terminal status first and gives the broker the terminal signal
\* afterwards, and that signal is the last thing published.
C11_RunningFirstTerminalWriteAroundSignal ==
    [][\A r \in RunIds :
          /\ brokerEvents'[r] # brokerEvents[r] \/ storedEvents'[r] # storedEvents[r]
                => statusWrites[r] = <<"running">>
          /\ Writes(r, "completed")
                => EndPublished(brokerEvents[r]) /\ EndPublished(storedEvents[r])
          /\ brokerSignal'[r] # brokerSignal[r]
                => /\ statusWrites[r] # <<>>
                   /\ statusWrites[r][Len(statusWrites[r])]
                         = (IF brokerSignal'[r][Len(brokerSignal'[r])].kind = "error"
                            THEN "failed" ELSE "cancelled")
                   /\ taskPc'[r] = "done"
          /\ \A st \in {"cancelled", "failed"} :
                 Writes(r, st) => brokerSignal[r] = <<>>]_vars

C11_Witness ==
    \E r \in RunIds :
        /\ taskPc[r] = "done"
        /\ statusWrites[r] = <<"running", "cancelled">>
        /\ brokerEvents[r] # <<>>
        /\ "cancelled" \in SignalKinds(r)

\* the events in evs are numbered 1, 2, 3, ... in the order they were
\* published: the i-th carries the id {run_id}_event_{i}
Gapless(r, evs) == \A i \in DOMAIN evs : evs[i].id = <<r, i>>

\* C12: the events published for a run carry the sequence numbers 1, 2, 3,
\* ... without gaps, in the order of publication, in the id
\* {run_id}_event_{sequence}, and once the run's task has ended the last
\* thing published for the run is a terminal event: the end marker or the
\* terminal signal of the cancelled / failed path.
C12_GaplessAndEndsWithTerminalEvent ==
    \A r \in RunIds :
        /\ Gapless(r, brokerEvents[r])
        /\ Gapless(r, storedEvents[r])
        /\ taskPc[r] = "done" => TerminalEventPublished(r)

\* the task of run r has left the part of the try body that publishes events
LeftPublishing(r) ==
    taskPc[r] \in CancelHandlerAwaits \cup ErrorHandlerAwaits
                     \cup {"set_completed", "idle_completed", "done"}

\* C13: every event offered to live consumers is also appended to the
\* durable log: once the task of a run has stopped publishing, whichever way
\* (normal end, graph error, cancellation during publishing), the log holds
\* exactly the events that were offered live.
C13_LogHoldsWhatWasOfferedLive ==
    \A r \in RunIds :
        LeftPublishing(r) => storedEvents[r] = brokerEvents[r]

\* C14: a consumer of a run's stream has been sent the run's events from the
\* first one on, in order, without duplicate or gap (what was published
\* before it attached as replay, the rest live), and once the run's task has
\* returned every consumer attached to the run has been sent the complete
\* sequence.
C14_SubscriberSeesFullSequence ==
    \A s \in SubscriberIds :
        LET r == subscribers[s].run
            seen == subscribers[s].seen
        IN  r # 0 =>
              /\ \A i \in DOMAIN seen : seen[i] = <<r, i>>
              /\ taskOutcome[r] = "returned" => Len(seen) = Len(brokerEvents[r])

\* C15: within a tick of run_scheduled_jobs every selected row has been
\* flipped to running (and committed) before execution work is done for any
\* of them, and run_cron_job is called at most once per cron_runs row.
C15_AllClaimedBeforeAnyWork ==
    /\ dispPc \in {"run", "record"}
          => \A k \in DOMAIN dispQueue :
                 cronRuns[dispQueue[k]].status # "scheduled"
    /\ \A i \in DOMAIN invocations : invocations[i] <= 1

CronRunStatuses == {"scheduled", "running", "completed", "failed"}

\* C16: the status of a cron_runs row is always one of scheduled, running,
\* completed, failed; a row whose execution succeeded is completed with the
\* content of the last message as output, and a row whose execution raised
\* is failed with the text of the error as output.
C16_CronRunStatusDomain ==
    /\ [](\A i \in DOMAIN cronRuns : cronRuns[i].status \in CronRunStatuses)
    /\ [][dispPc = "record" /\ dispPc' # "record"
            => LET row == cronRuns'[Head(dispQueue)]
               IN  IF dispOutput.output = LastMessageContent
                   THEN row.status = "completed"
                        /\ row.output = LastMessageContent
                   ELSE row.status = "failed"
                        /\ row.output = dispOutput.output]_vars

RunStatuses == {"pending", "running", "completed", "failed", "cancelled",
                "interrupted"}

\* C19: a Run row is created with status pending, by create_run and by
\* create_and_stream_run alike, and the status of a Run row is always one of
\* pending, running, completed, failed, cancelled, interrupted.
C19_RunCreatedPendingStatusInDomain ==
    /\ [](\A r \in RunIds : runs[r].status \in RunStatuses \cup {"absent"})
    /\ [][\A r \in RunIds :
             runs[r].status = "absent" /\ runs'[r].status # "absent"
                 => runs'[r].status = "pending"]_vars

\* C20: when the graph has produced a value snapshot, its event sequence has
\* ended normally and the executor has persisted the run as completed, the
\* output of the Run row is the final output the published end event
\* carries, the last value snapshot.
C20_PersistedOutputIsEndEventOutput ==
    \A r \in RunIds :
        /\ runs[r].status = "completed"
        /\ EndPublished(brokerEvents[r])
        /\ finalOutput[r] # NoPayload
        => /\ brokerEvents[r][Len(brokerEvents[r])].final_output = finalOutput[r]
           /\ runs[r].output = finalOutput[r]

\* the step is the commit that ends a tick of the trigger loop
TickCommits == trigPc = "select" /\ trigPc' = "idle"

\* the rows the step appends to cron_runs
AddedCronRuns == SubSeq(cronRuns', Len(cronRuns) + 1, Len(cronRuns'))

AddedFor(c) == {i \in DOMAIN AddedCronRuns : AddedCronRuns[i].cron_id = c}

\* C17: a tick of the trigger loop passes over an enabled schedule whose
\* expression fails validation and adds nothing for it, and the same tick
\* commits exactly one scheduled row for every enabled schedule with a valid
\* expression whose previous fire time is the tick's minute, whatever other
\* schedules the table holds.
C17_InvalidExpressionIsSkipped ==
    [][TickCommits =>
          /\ Len(cronRuns') >= Len(cronRuns)
          /\ \A c \in CronIds :
                 IF /\ crons[c].schedule # None
                    /\ crons[c].enabled
                    /\ is_valid(crons[c].schedule)
                    /\ get_prev(crons[c].schedule, clock) = trigNow
                 THEN /\ Cardinality(AddedFor(c)) = 1
                      /\ \A i \in AddedFor(c) :
                             AddedCronRuns[i].status = "scheduled"
                 ELSE AddedFor(c) = {}]_vars

\* a tick has added a row for a valid schedule while the table held an
\* enabled schedule with an invalid expression
C17_Witness ==
    /\ trigPc = "idle"
    /\ \E bad, good \in CronIds :
           /\ crons[bad].schedule # None
           /\ crons[bad].enabled
           /\ ~is_valid(crons[bad].schedule)
           /\ crons[good].enabled
           /\ \E i \in DOMAIN cronRuns :
                  /\ cronRuns[i].cron_id = good
                  /\ cronRuns[i].by = "trigger"
                  /\ cronRuns[i].status = "scheduled"

\* the step belongs to the trigger loop
TriggerStep == trigPc' # trigPc

\* C18: a tick of the trigger loop adds rows only for schedules that are
\* enabled when it reads the table, no step of the trigger loop changes a
\* schedule, and while a schedule is disabled (from the commit of update_cron
\* with enabled=false to the commit that enables it again) no step adds a
\* row of the trigger loop for it.
C18_OnlyEnabledSchedulesFire ==
    [][/\ TickCommits
           => \A c \in CronIds :
                  AddedFor(c) # {} => crons[c].schedule # None /\ crons[c].enabled
       /\ TriggerStep => crons' = crons
       /\ \A c \in CronIds :
              ~crons[c].enabled
                  => Cardinality({i \in DOMAIN cronRuns' :
                                     /\ cronRuns'[i].cron_id = c
                                     /\ cronRuns'[i].by = "trigger"})
                     = Cardinality({i \in DOMAIN cronRuns :
                                       /\ cronRuns[i].cron_id = c
                                       /\ cronRuns[i].by = "trigger"})]_vars

\* a schedule that fired while enabled has been disabled, and a tick made
\* in a minute in which it would be due has ended without a row for it
C18_Witness ==
    /\ trigPc = "idle"
    /\ \E c \in CronIds :
           /\ crons[c].schedule # None
           /\ is_valid(crons[c].schedule)
           /\ ~crons[c].enabled
           /\ get_prev(crons[c].schedule, clock) = trigNow
           /\ \E i \in DOMAIN cronRuns :
                  /\ cronRuns[i].cron_id = c
                  /\ cronRuns[i].by = "trigger"
                  /\ cronRuns[i].minute < MinuteOf(trigNow)
           /\ \A i \in DOMAIN cronRuns :
                  cronRuns[i].cron_id = c
                      => cronRuns[i].minute # MinuteOf(trigNow)


\* C21: after the finishing call (update_run_status with a terminal status,
\* output and error, plus the thread release) has been applied twice with
\* the same arguments, every field of the Run row equals its value after the
\* first application and the thread is idle.
C21_FinishIsIdempotent ==
    finish.calls = 2
        => /\ runs[finish.args.run_id] = finish.first
           /\ threadStatus[runs[finish.args.run_id].thread_id] = "idle"

\* a request create_run must refuse whatever the thread is
Refused(request) ==
    LET assistant == assistants[resolve_assistant_id(request.assistant_id,
                                                     AvailableGraphs)]
    IN  \/ BothSupplied(request)
        \/ assistant = NoAssistant
        \/ assistant.graph_id \notin AvailableGraphs

NothingStarted ==
    UNCHANGED <<runs, threadStatus, taskPc, active_runs>>

C22_RefusedRequestStartsNothing ==
    [][\A t \in ThreadIds, request \in RunCreates :
          (Refused(request) /\ create_run_with(t, request))
              => /\ response'.code = IF BothSupplied(request) THEN 400 ELSE 404
                 /\ NothingStarted]_vars

\* a request for an assistant of an unregistered graph was refused while a
\* thread was busy with a run
C22_Witness ==
    /\ response = [endpoint |-> "create_run", detail |-> "graph_not_found",
                   code |-> 404]
    /\ \E t \in ThreadIds : threadStatus[t] = "busy"
    /\ \E r \in RunIds : runs[r].status = "pending"
    /\ \E t \in ThreadIds : threadStatus[t] = "idle"
    /\ \E a \in AssistantKeys : /\ assistants[a] # NoAssistant
                                 /\ assistants[a].graph_id \notin AvailableGraphs

\* what an operand contributes: nothing when it is None
Given(obj) == IF obj = NoneObject THEN EmptyDict ELSE obj

\* C24: the merged settings are the shallow union of the assistant's
\* defaults and the request's values: the keys are the union of both key
\* sets, a key of the request has the request's whole value, also where the
\* assistant has an object under the same key, any other key has the
\* assistant's value, a None operand contributes nothing, and both operands
\* are what they were before the call.
C24_MergeIsShallowUnion ==
    merged.done =>
        LET a == Given(merged.objects[1])
            b == Given(merged.objects[2])
            m == merged.result
        IN  /\ m # NoneObject
            /\ IsDict(m)
            /\ TopKeys(m) = TopKeys(a) \cup TopKeys(b)
            /\ \A k \in TopKeys(b) : ValueAt(m, k) = ValueAt(b, k)
            /\ \A k \in TopKeys(a) \ TopKeys(b) : ValueAt(m, k) = ValueAt(a, k)
            /\ merged.after = merged.objects

\* both operands hold an object under `configurable`, with different keys
\* in it, and the assistant alone holds `recursion_limit`
C24_Witness ==
    /\ merged.done
    /\ LET a == merged.objects[1]
           b == merged.objects[2]
       IN  /\ a # NoneObject /\ b # NoneObject
           /\ \E e \in a : e.path = <<"configurable", "model">>
           /\ \E e \in b : e.path = <<"configurable", "user_id">>
           /\ \A e \in b : e.path # <<"configurable", "model">>
           /\ \E e \in a : e.path = <<"recursion_limit">>
           /\ "recursion_limit" \notin TopKeys(b)
           /\ \A e \in merged.result : e.path # <<"configurable", "model">>

\* C25: get_cron, run_cron_now, update_cron and delete_cron answer a cron
\* id that is not stored with 404, add no cron_runs row and change no cron
\* row.
C25_UnknownCronIsNotFound ==
    [][\A c \in CronIds :
          (/\ ~CronFound(c)
           /\ \/ get_cron_with(c)
              \/ run_cron_now_with(c)
              \/ delete_cron_with(c)
              \/ \E en \in BOOLEAN : update_cron_with(c, en))
              => /\ response'.code = 404
                 /\ cronRuns' = cronRuns
                 /\ crons' = crons]_vars

\* C26: create_assistant returns the existing assistant and creates nothing
\* under if_exists = do_nothing, and answers 409 and creates nothing
\* otherwise, when an assistant with the same id or the same
\* (graph_id, config) pair exists; hence, whatever the interleaving of
\* create_assistant requests, no two stored assistants have the same
\* (graph_id, config) pair.
C26_NoTwoAssistantsShareGraphAndConfig ==
    \A a, b \in AssistantKeys :
        (/\ a # b
         /\ assistants[a] # NoAssistant
         /\ assistants[b] # NoAssistant)
            => ~(/\ assistants[a].graph_id = assistants[b].graph_id
                 /\ assistants[a].config = assistants[b].config)

\* C27: shutdown_event requests the cancellation of every task in
\* active_runs that is not done, then stops the event log's retention task,
\* and closes the database connections only after both.
C27_ShutdownOrder ==
    /\ [][(~shutdown /\ shutdown')
             => /\ \A r \in active_runs : ~TaskDone(r) => mustCancel'[r]
                /\ cleanup_task' /\ db_open']_vars
    /\ [](~cleanup_task => shutdown)
    /\ [](~db_open => shutdown /\ ~cleanup_task)

\* the connections are closed while a task that was asked to cancel at
\* shutdown has not ended yet
C27_Witness ==
    /\ ~db_open
    /\ \E r \in active_runs : ~TaskDone(r) /\ runs[r].status # "absent"

LastWrite(r) ==
    IF statusWrites[r] = <<>> THEN None
    ELSE statusWrites[r][Len(statusWrites[r])]

\* C28: once execute_run_async is in its handler of CancelledError it offers
\* and stores no further event of the graph, and it goes through, in this
\* order: status cancelled with empty output persisted, thread idle,
\* signal_run_cancelled, cleanup_run and the removal from active_runs; then
\* the task ends cancelled.
C28_CancellationHandledInOrder ==
    /\ [](\A r \in RunIds :
             /\ taskPc[r] \in {"cancel_idle", "cancel_signal"}
                    => LastWrite(r) = "cancelled" /\ runs[r].output = EmptyJson
             /\ (taskPc[r] = "cancel_signal" /\ AloneOnThread(r))
                    => threadStatus[runs[r].thread_id] = "idle")
    /\ [][\A r \in RunIds :
             taskPc[r] \in CancelHandlerAwaits
                 => /\ brokerEvents'[r] = brokerEvents[r]
                    /\ storedEvents'[r] = storedEvents[r]
                    /\ taskPc'[r] \in CancelHandlerAwaits \cup {"done"}
                    /\ taskPc'[r] = "done"
                           => /\ taskPc[r] = "cancel_signal"
                              /\ "cancelled" \in SignalKinds(r)'
                              /\ cleanupCount'[r] = cleanupCount[r] + 1
                              /\ r \notin active_runs'
                              /\ taskOutcome'[r] = "cancelled"]_vars

\* C29: graph.astream is called at most once for a run; once the graph has
\* raised or the task has been cancelled, no step of the executor calls it
\* again.
C29_GraphInvokedAtMostOnce ==
    /\ [](\A r \in RunIds : astreamCalls[r] <= 1)
    /\ [][\A r \in RunIds :
             taskPc[r] \in ErrorHandlerAwaits \cup CancelHandlerAwaits
                           \cup {"done"}
                 => /\ astreamCalls'[r] = astreamCalls[r]
                    /\ taskPc'[r] \in ErrorHandlerAwaits \cup CancelHandlerAwaits
                                       \cup {"done"}]_vars

\* a task ended after its graph raised, and one call of the graph was made
C29_Witness ==
    \E r \in RunIds :
        /\ taskPc[r] = "done"
        /\ exc[r] # None
        /\ taskOutcome[r] = "raised"
        /\ astreamCalls[r] = 1

CronRunTerminal(st) == st \notin {"scheduled", "running"}

\* the handling of the current element of scheduled_runs ends in this step
ElementEnds ==
    /\ dispPc \in {"run", "record"}
    /\ dispPc' \notin {"run", "record"}
    /\ dispPc' # dispPc

\* C31: every firing the dispatch loop flips to running eventually has a
\* terminal status with completed_at set and its output persisted (the
\* modelled graph invocations all return or raise), and when the handling of
\* one selected firing ends, with or without a failure, the loop goes on with
\* the firings that remain selected in the tick.
C31_ClaimedFiringFinishes ==
    /\ \A i \in 1..MaxCronRuns :
           (i \in DOMAIN cronRuns /\ cronRuns[i].status = "running")
               ~> (/\ i \in DOMAIN cronRuns
                   /\ CronRunTerminal(cronRuns[i].status)
                   /\ cronRuns[i].completed_at # NoTime
                   /\ cronRuns[i].output # None)
    /\ [][ElementEnds /\ Tail(dispQueue) # <<>>
             => dispPc' = "claim" /\ dispQueue' = Tail(dispQueue)]_vars


\* minute m matches the minute field of expression e ("*" or "*/5")
Matches(e, m) == is_valid(e) /\ m % Period(e) = 0

\* C32: a tick of the trigger loop adds a firing for a schedule only if the
\* tick's now, truncated to the minute, is a fire time of the schedule's
\* expression: a tick whose minute does not match adds nothing for it, and no
\* tick adds more than one firing for one schedule.
C32_FiresOnlyInMatchingMinute ==
    [][TickCommits =>
          \A c \in CronIds :
              /\ Cardinality(AddedFor(c)) <= 1
              /\ AddedFor(c) # {}
                    => /\ trigNow = TruncateToMinute(trigNow)
                       /\ Matches(crons[c].schedule, MinuteOf(trigNow))
              /\ ~Matches(crons[c].schedule, MinuteOf(trigNow))
                    => AddedFor(c) = {}]_vars

\* a schedule firing every five minutes has fired in a matching minute, and
\* a later tick in a minute that does not match has ended without a firing
\* for it
C32_Witness ==
    /\ trigPc = "idle"
    /\ \E c \in CronIds :
           /\ crons[c].schedule = "*/5 * * * *"
           /\ crons[c].enabled
           /\ MinuteOf(trigNow) % 5 # 0
           /\ \E i \in DOMAIN cronRuns :
                  /\ cronRuns[i].cron_id = c
                  /\ cronRuns[i].by = "trigger"
                  /\ cronRuns[i].minute % 5 = 0
           /\ \A i \in DOMAIN cronRuns :
                  cronRuns[i].cron_id = c => cronRuns[i].minute % 5 = 0


\* C33: the status of a firing only moves scheduled -> running -> terminal.
\* Rows are added by the commit of the trigger loop and by run_cron_now only,
\* with status scheduled and no timestamps; only steps of the dispatch loop
\* change the status of a row; a row with a terminal status is not changed
\* and run_cron_job is not called for it again; started_at is written in the
\* step that makes the row running and in no other; completed_at is written
\* only in the step that makes the row terminal.
C33_FiringStatusMovesForward ==
    [][/\ Len(cronRuns') >= Len(cronRuns)
       /\ \A i \in DOMAIN cronRuns' :
              IF i \notin DOMAIN cronRuns
              THEN /\ check_and_schedule_commit \/ run_cron_now
                   /\ cronRuns'[i].status = "scheduled"
                   /\ cronRuns'[i].started_at = NoTime
                   /\ cronRuns'[i].completed_at = NoTime
              ELSE LET old == cronRuns[i]
                       new == cronRuns'[i]
                   IN  /\ new.status # old.status
                          => /\ run_scheduled_jobs
                             /\ \/ old.status = "scheduled" /\ new.status = "running"
                                \/ old.status = "running" /\ CronRunTerminal(new.status)
                       /\ CronRunTerminal(old.status)
                          => new = old /\ invocations'[i] = invocations[i]
                       /\ new.started_at # old.started_at
                          <=> old.status = "scheduled" /\ new.status = "running"
                       /\ new.completed_at # old.completed_at
                          => ~CronRunTerminal(old.status) /\ CronRunTerminal(new.status)
                       /\ new.cron_id = old.cron_id]_vars

\* a firing of the trigger loop and a firing of run_cron_now have both been
\* executed, one ending completed and one with a failure, some time after they
\* were claimed, and the table holds a newer firing that is still scheduled
C33_Witness ==
    \E i, j, k \in DOMAIN cronRuns :
        /\ cronRuns[i].by = "trigger"
        /\ cronRuns[j].by = "manual"
        /\ cronRuns[i].status = "completed"
        /\ CronRunTerminal(cronRuns[j].status)
        /\ cronRuns[j].status # "completed"
        /\ cronRuns[i].completed_at > cronRuns[i].started_at
        /\ cronRuns[i].started_at # NoTime
        /\ cronRuns[j].completed_at # NoTime
        /\ k > i /\ k > j
        /\ cronRuns[k].status = "scheduled"


\* the outcome statuses the terminal events published for run r carry: the
\* status field of an end event offered to the broker, cancelled for the
\* signal of signal_run_cancelled and failed for that of signal_run_error
PublishedOutcomes(r) ==
    {brokerEvents[r][i].status :
        i \in {k \in DOMAIN brokerEvents[r] : brokerEvents[r][k].kind = "end"}}
    \cup {IF brokerSignal[r][i].kind = "error" THEN "failed" ELSE "cancelled" :
             i \in DOMAIN brokerSignal[r]}

\* C34: once the task of a run has ended, the outcome status carried by a
\* terminal event published for the run is the persisted status of the Run,
\* on every path, the one on which the task is cancelled between the
\* publication of the end event and the write of status completed included.
C34_TerminalEventMatchesStatus ==
    \A r \in RunIds :
        taskPc[r] = "done"
            => \A st \in PublishedOutcomes(r) : st = runs[r].status


\* C35: a run whose background task was cancelled, at whatever point (before
\* the first step of its coroutine included), is, once the task is done,
\* absent from active_runs and neither pending nor running, and its thread
\* is idle.
C35_CancelledTaskLeavesNoTrace ==
    \A r \in RunIds :
        taskPc[r] = "done" /\ taskOutcome[r] = "cancelled"
            => /\ r \notin active_runs
               /\ runs[r].status \notin {"pending", "running"}
               /\ threadStatus[runs[r].thread_id] = "idle"


\* the step is one of the background task of run r
ExecutorStep(r) == taskPc[r] # "none" /\ taskPc'[r] # taskPc[r]

\* C36: a step of execute_run_async for run r on thread t changes the
\* persisted status, output and error_message of no other Run, the status of
\* no other Thread, and removes no entry other than r from active_runs,
\* whatever the executors of the other runs are doing.
C36_ExecutorTouchesOwnRunOnly ==
    [][\A r \in RunIds :
          ExecutorStep(r) /\ execute_run_async(r)
              => /\ \A q \in RunIds \ {r} :
                        /\ runs'[q].status = runs[q].status
                        /\ runs'[q].output = runs[q].output
                        /\ runs'[q].error_message = runs[q].error_message
                 /\ \A t \in ThreadIds \ {runs[r].thread_id} :
                        threadStatus'[t] = threadStatus[t]
                 /\ active_runs \ active_runs' \subseteq {r}]_vars

\* the executor of the later run has gone through all its steps and ended
\* completed while the earlier run, on another thread, was and still is in
\* flight: running, registered, its thread busy
C36_Witness ==
    \E r, q \in RunIds :
        /\ q < r
        /\ taskPc[r] = "done" /\ runs[r].status = "completed"
        /\ r \notin active_runs
        /\ threadStatus[runs[r].thread_id] = "idle"
        /\ runs[q].thread_id # runs[r].thread_id
        /\ taskPc[q] = "astream" /\ runs[q].status = "running"
        /\ q \in active_runs
        /\ threadStatus[runs[q].thread_id] = "busy"


\* caller p's last call is not the one it held before this step
NewCall(p) == graphCalls'[p] # graphCalls[p]

\* caller p calls get_graph(g) without force_reload while g has an entry
CachedCall(p, g) ==
    /\ graph_cache[g] # NoGraph
    /\ \E file_exists \in BOOLEAN : get_graph_call(p, g, FALSE, file_exists)

\* an unregistered id makes get_graph and get_graph_raw raise and leaves the
\* cache as it was
UnregisteredRaises ==
    \A p \in Requests, g \in GraphIds \ graph_registry :
        (/\ NewCall(p)
         /\ \/ \E force_reload, file_exists \in BOOLEAN :
                   get_graph_call(p, g, force_reload, file_exists)
            \/ \E file_exists \in BOOLEAN :
                   get_graph_raw_call(p, g, file_exists))
            => /\ graphCalls'[p].pc = "raised"
               /\ graph_cache' = graph_cache

\* get_graph_raw writes no cache entry
RawLeavesCache == graph_cache' # graph_cache => ~get_graph_raw

\* every call without force_reload made after a successful get_graph(g),
\* and before g is invalidated, returns the object that call returned and
\* loads nothing
LaterCallsSameObject ==
    \A p \in Requests, g \in graph_registry :
        (first_served[g] # NoGraph /\ NewCall(p) /\ CachedCall(p, g))
            => /\ graphCalls'[p].pc = "returned"
               /\ graphCalls'[p].object = first_served[g]
               /\ graphLoads' = graphLoads

\* C37 as stated: after a successful get_graph(g), every later get_graph(g)
\* without force_reload returns the same cached object without loading the
\* graph file again, until invalidate_cache removes it; unregistered ids
\* raise and leave the cache unchanged; get_graph_raw never populates the
\* cache.
C37_CachedObjectIsStable ==
    [][LaterCallsSameObject /\ UnregisteredRaises /\ RawLeavesCache]_vars

\* a call without force_reload that finds an entry returns it, loads nothing
\* and leaves the cache unchanged
HitReadsCache ==
    \A p \in Requests, g \in graph_registry :
        (NewCall(p) /\ CachedCall(p, g))
            => /\ graphCalls'[p].pc = "returned"
               /\ graphCalls'[p].object = graph_cache[g]
               /\ graphLoads' = graphLoads
               /\ graph_cache' = graph_cache

\* caller p's get_graph(g), called with force_reload or without an entry,
\* completes in this step and caches the object it loaded
LoadingCallCompletes(p, g) ==
    /\ \/ /\ graphCalls[p].pc = "get_checkpointer"
          /\ graphCalls[p].graph_id = g
          /\ get_graph_finish(p)
       \/ \E force_reload \in BOOLEAN :
              /\ force_reload \/ graph_cache[g] = NoGraph
              /\ get_graph_call(p, g, force_reload, TRUE)
    /\ graphCalls'[p].pc = "returned"
    /\ graph_cache'[g] = graphCalls'[p].object

\* an entry is replaced only by a completing call that loaded, and removed
\* only by invalidate_cache
EntryChangesByLoadOrInvalidate ==
    \A g \in graph_registry :
        graph_cache'[g] # graph_cache[g]
            => IF graph_cache'[g] = NoGraph
               THEN invalidate_cache_of(g) \/ invalidate_cache_of(None)
               ELSE \E p \in Requests : LoadingCallCompletes(p, g)

\* C37 amended: a get_graph(g) without force_reload that finds g cached
\* returns the cached object, loads nothing and leaves the cache unchanged;
\* the entry of g is replaced only by the completion of a get_graph(g) that
\* was called with force_reload or found no entry, and removed only by
\* invalidate_cache(g) or invalidate_cache(); unregistered ids raise and
\* leave the cache unchanged; get_graph_raw never populates the cache.
C37_CacheHitReturnsEntry ==
    [][/\ HitReadsCache
       /\ EntryChangesByLoadOrInvalidate
       /\ UnregisteredRaises
       /\ RawLeavesCache]_vars

\* two callers hold the same object of one graph and it was loaded once: a
\* forced call loads anew, so one of the two was served from the cache
C37_Witness ==
    \E p, q \in Requests, g \in graph_registry :
        /\ p # q
        /\ graphCalls[p] = [fn |-> "get_graph", graph_id |-> g,
                            pc |-> "returned", object |-> graph_cache[g]]
        /\ graphCalls[q] = graphCalls[p]
        /\ graph_cache[g] # NoGraph
        /\ graphLoads = graph_cache[g]


\* what the client supplied: the object, nothing for None
Supplied(d) == IF d = NoneObject THEN EmptyDict ELSE d

\* the value d holds at a path, Absent when it holds none
Absent == "absent"
At(d, p) == IF \E e \in d : e.path = p
            THEN (CHOOSE e \in d : e.path = p).value
            ELSE Absent

\* the keys a checkpoint overwrites
Overwritten(checkpoint) ==
    IF Truthy(checkpoint) THEN TopKeys(NonNoneItems(checkpoint)) ELSE {}

\* C38: create_run_config is additive: every top-level key the client
\* supplied other than `configurable` is returned unchanged; client-supplied
\* configurable.thread_id and configurable.run_id are kept and the server's
\* values only fill absent keys; each non-None checkpoint entry overwrites
\* the same key in configurable while None entries are ignored; the caller's
\* additional_config object is not mutated.
C38_RunConfigIsAdditive ==
    runConfig.pc = "returned" =>
        LET c == runConfig
            client == Supplied(c.additional_config)
            theirs == SubObject(client, "configurable")
            conf == SubObject(c.result, "configurable")
            server == [thread_id |-> c.thread_id, run_id |-> c.run_id]
        IN  /\ \A k \in TopKeys(client) \ {"configurable"} :
                   ValueAt(c.result, k) = ValueAt(client, k)
            /\ TopKeys(c.result) = TopKeys(client) \cup {"configurable"}
            /\ \A k \in {"thread_id", "run_id"} \ Overwritten(c.checkpoint) :
                   At(conf, <<k>>) = IF k \in TopKeys(theirs)
                                     THEN At(theirs, <<k>>)
                                     ELSE server[k]
            /\ \A k \in TopKeys(theirs) \ Overwritten(c.checkpoint) :
                   At(conf, <<k>>) = At(theirs, <<k>>)
            /\ \A k \in Overwritten(c.checkpoint) :
                   At(conf, <<k>>) = At(c.checkpoint, <<k>>)
            /\ TopKeys(conf) = TopKeys(theirs) \cup {"thread_id", "run_id"}
                                   \cup Overwritten(c.checkpoint)
            /\ c.after = c.additional_config

\* a call has returned for a client that set a top-level key and its own
\* thread_id, with a checkpoint that names a checkpoint_id and has a null
\* thread_id
C38_Witness ==
    /\ runConfig.pc = "returned"
    /\ At(runConfig.additional_config, <<"recursion_limit">>) = "client"
    /\ At(runConfig.additional_config, <<"configurable", "thread_id">>)
           = "client"
    /\ At(runConfig.checkpoint, <<"checkpoint_id">>) = "checkpoint"
    /\ At(runConfig.checkpoint, <<"thread_id">>) = None
    /\ At(runConfig.result, <<"configurable", "thread_id">>) = "client"
    /\ At(runConfig.result, <<"configurable", "run_id">>) = "run"
    /\ At(runConfig.result, <<"configurable", "checkpoint_id">>)
           = "checkpoint"


\* the calls of fn, the sleeps and the failures in what retry did so far
Count(log, what) == Cardinality({i \in DOMAIN log : log[i] \in what})

\* how a call of retry stands at any moment
RetryBounded ==
    LET c == retryCall
        calls == Count(c.log, {"call"})
        sleeps == Count(c.log, {"sleep"})
        failures == Count(c.log, Exceptions)
    IN  /\ c.max_attempts <= 0 => calls = 0
        /\ c.max_attempts > 0 => calls <= c.max_attempts
        \* a sleep follows a failure and is followed by the next call
        /\ \A i \in DOMAIN c.log :
               /\ c.log[i] = "sleep" =>
                      /\ i > 1 /\ c.log[i - 1] \in Exceptions
                      /\ i < Len(c.log) /\ c.log[i + 1] = "call"
               /\ (c.log[i] = "call" /\ i > 1) => c.log[i - 1] = "sleep"
               /\ (c.log[i] = "ok" /\ i < Len(c.log)) => FALSE
        /\ c.pc \in {"returned", "raised"} => sleeps = IF calls = 0 THEN 0
                                                       ELSE calls - 1
        /\ c.pc = "returned" => /\ c.log[Len(c.log)] = "ok"
                                /\ failures = calls - 1
        /\ (c.pc = "raised" /\ c.outcome \in Exceptions) =>
               /\ calls = c.max_attempts
               /\ failures = c.max_attempts
               /\ c.outcome = c.log[Len(c.log)]
        /\ (c.pc = "raised" /\ c.outcome = "ValueError") =>
               c.max_attempts <= 0
        /\ (c.pc \in {"returned", "raised"} /\ c.max_attempts <= 0) =>
               c.pc = "raised" /\ c.outcome = "ValueError"

\* C39: retry calls fn at most max_attempts times, returns the first
\* successful result without any further call, sleeps exactly once between
\* consecutive attempts and not after the last one, re-raises the last error
\* after max_attempts consecutive failures, raises ValueError without calling
\* fn when max_attempts <= 0, and always terminates when fn does.
C39_RetryIsBoundedAndEnds ==
    /\ []RetryBounded
    /\ <>(retryCall.pc \in {"returned", "raised"})

\* a call with max_attempts of at least two has failed on every attempt and
\* raised the error of the last one, which is not the error of the first
C39_Witness ==
    /\ retryCall.pc = "raised"
    /\ retryCall.max_attempts > 1
    /\ retryCall.outcome \in Exceptions
    /\ retryCall.outcome # retryCall.log[1 + 1]
    /\ Count(retryCall.log, {"sleep"}) = retryCall.max_attempts - 1

====
